---- MODULE Spec2Model ----
(***************************************************************************)
(* Model of the authenticated administrative RPC helpers of the Nostr      *)
(* relay manager: the NIP-98 signed-request builder (createAuthHeader /    *)
(* createNip98Auth) and the NIP-86 caller (callRelayAPI), as they are      *)
(* copied into ConnectionStatus.tsx (RelayStats), UserManagement.tsx       *)
(* (UserManagement and RelaySettings), the EventModeration component and   *)
(* the EventsList component, together with the form handlers that build    *)
(* the parameter lists.                                                    *)
(*                                                                         *)
(* JavaScript strings are sequences of one-character strings, so that      *)
(* trim, startsWith, the scheme regex and string concatenation are         *)
(* computed.  JSON text is a sequence of lexical tokens.  SHA-256 and      *)
(* base64 are injective term constructors (no collisions are modelled).   *)
(***************************************************************************)
EXTENDS Integers, Sequences, FiniteSets, TLC

VARIABLES nostr, now, calls, signLog, netLog, ui

vars == <<nostr, now, calls, signLog, netLog, ui>>

(***************************************************************************)
(* Bounds of the model.                                                    *)
(***************************************************************************)
\* Number of call slots (concurrent invocations) of the concurrent specification.
MaxCalls == 2
\* Largest value of the clock (seconds) read by Date.now().
MaxTime == 1

(***************************************************************************)
(* Strings.                                                                *)
(***************************************************************************)
S_list == <<"l", "i", "s", "t">>
S_https == <<"h", "t", "t", "p", "s", ":", "/", "/">>
S_wss == <<"w", "s", "s", ":", "/", "/">>
S_ws == <<"w", "s", ":", "/", "/">>
S_Nostr == <<"N", "o", "s", "t", "r", " ">>
S_HTTP == <<"H", "T", "T", "P", " ">>
S_colon == <<":", " ">>
S_extensionNotFound ==
    <<"N", "I", "P", "-", "0", "7", " ", "e", "x", "t", "e", "n", "s", "i", "o", "n",
      " ", "n", "o", "t", " ", "f", "o", "u", "n", "d">>
listbannedpubkeys ==
    <<"l", "i", "s", "t", "b", "a", "n", "n", "e", "d", "p", "u", "b", "k", "e", "y", "s">>
banpubkey == <<"b", "a", "n", "p", "u", "b", "k", "e", "y">>
allowpubkey == <<"a", "l", "l", "o", "w", "p", "u", "b", "k", "e", "y">>
banevent == <<"b", "a", "n", "e", "v", "e", "n", "t">>
allowevent == <<"a", "l", "l", "o", "w", "e", "v", "e", "n", "t">>
blockip == <<"b", "l", "o", "c", "k", "i", "p">>
listallowedpubkeys ==
    <<"l", "i", "s", "t", "a", "l", "l", "o", "w", "e", "d", "p", "u", "b", "k", "e", "y", "s">>
listbannedevents ==
    <<"l", "i", "s", "t", "b", "a", "n", "n", "e", "d", "e", "v", "e", "n", "t", "s">>
listeventsneedingmoderation ==
    <<"l", "i", "s", "t", "e", "v", "e", "n", "t", "s", "n", "e", "e", "d", "i", "n", "g", "m", "o", "d", "e", "r", "a", "t", "i", "o", "n">>
listallowedkinds ==
    <<"l", "i", "s", "t", "a", "l", "l", "o", "w", "e", "d", "k", "i", "n", "d", "s">>

\* Texts of the information fetches.
S_CORS ==
    <<"C", "O", "R", "S">>
S_FailedToFetch ==
    <<"F", "a", "i", "l", "e", "d", " ", "t", "o", " ", "f", "e", "t", "c", "h">>
S_LoadFailed ==
    <<"L", "o", "a", "d", " ", "f", "a", "i", "l", "e", "d">>
S_corsNamed ==
    <<"C", "O", "R", "S", " ", "r", "e", "q", "u", "e", "s", "t", " ", "d", "i", "d", " ", "n", "o", "t", " ", "s", "u", "c", "c", "e", "e", "d">>
S_CORSnotSupported ==
    <<"C", "O", "R", "S", " ", "n", "o", "t", " ", "s", "u", "p", "p", "o", "r", "t", "e", "d">>
S_NetworkError ==
    <<"N", "e", "t", "w", "o", "r", "k", " ", "e", "r", "r", "o", "r">>
S_connected ==
    <<"c", "o", "n", "n", "e", "c", "t", "e", "d">>
S_http_error ==
    <<"h", "t", "t", "p", "_", "e", "r", "r", "o", "r">>
S_cors_error ==
    <<"c", "o", "r", "s", "_", "e", "r", "r", "o", "r">>
S_network_error ==
    <<"n", "e", "t", "w", "o", "r", "k", "_", "e", "r", "r", "o", "r">>
S_error ==
    <<"e", "r", "r", "o", "r">>
S_FailedInfo ==
    <<"F", "a", "i", "l", "e", "d", " ", "t", "o", " ", "f", "e", "t", "c", "h", " ", "r", "e", "l", "a", "y", " ", "i", "n", "f", "o", ":", " ">>
S_CORSerrorLong ==
    <<"C", "O", "R", "S", " ", "e", "r", "r", "o", "r", ":", " ", "T", "h", "i", "s", " ", "r", "e", "l", "a", "y", " ", "d", "o", "e", "s", " ", "n", "o", "t", " ", "a", "l", "l", "o", "w", " ", "c", "r", "o", "s", "s", "-", "o", "r", "i", "g", "i", "n", " ", "r", "e", "q", "u", "e", "s", "t", "s", ".", " ", "T", "r", "y", " ", "c", "o", "n", "n", "e", "c", "t", "i", "n", "g", " ", "d", "i", "r", "e", "c", "t", "l", "y", " ", "t", "o", " ", "t", "h", "e", " ", "r", "e", "l", "a", "y", " ", "o", "r", " ", "u", "s", "e", " ", "a", " ", "r", "e", "l", "a", "y", " ", "t", "h", "a", "t", " ", "s", "u", "p", "p", "o", "r", "t", "s", " ", "C", "O", "R", "S", ".">>
S_NetworkErrorLong ==
    <<"N", "e", "t", "w", "o", "r", "k", " ", "e", "r", "r", "o", "r", ":", " ", "U", "n", "a", "b", "l", "e", " ", "t", "o", " ", "c", "o", "n", "n", "e", "c", "t", " ", "t", "o", " ", "t", "h", "e", " ", "r", "e", "l", "a", "y", ".", " ", "C", "h", "e", "c", "k", " ", "t", "h", "e", " ", "U", "R", "L", " ", "a", "n", "d", " ", "y", "o", "u", "r", " ", "i", "n", "t", "e", "r", "n", "e", "t", " ", "c", "o", "n", "n", "e", "c", "t", "i", "o", "n", ".">>

\* Texts of the toasts.
S_validPubkey ==
    <<"P", "l", "e", "a", "s", "e", " ", "e", "n", "t", "e", "r", " ", "a", " ", "v", "a", "l", "i", "d", " ", "p", "u", "b", "k", "e", "y">>
S_validEventId ==
    <<"P", "l", "e", "a", "s", "e", " ", "e", "n", "t", "e", "r", " ", "a", " ", "v", "a", "l", "i", "d", " ", "e", "v", "e", "n", "t", " ", "I", "D">>
S_validIp ==
    <<"P", "l", "e", "a", "s", "e", " ", "e", "n", "t", "e", "r", " ", "a", " ", "v", "a", "l", "i", "d", " ", "I", "P", " ", "a", "d", "d", "r", "e", "s", "s">>
S_Event ==
    <<"E", "v", "e", "n", "t", " ">>
S_hasBeen ==
    <<".", ".", ".", " ", "h", "a", "s", " ", "b", "e", "e", "n", " ">>
S_approved ==
    <<"a", "p", "p", "r", "o", "v", "e", "d">>
S_banned ==
    <<"b", "a", "n", "n", "e", "d">>

\* String.prototype.startsWith
StartsWith(s, prefix) ==
    /\ Len(s) >= Len(prefix)
    /\ SubSeq(s, 1, Len(prefix)) = prefix

\* The white space String.prototype.trim removes (space, tab, line feed).
WhiteSpace == {" ", "\t", "\n"}

RECURSIVE TrimStart(_)
TrimStart(s) ==
    IF s # <<>> /\ Head(s) \in WhiteSpace THEN TrimStart(Tail(s)) ELSE s

RECURSIVE TrimEnd(_)
TrimEnd(s) ==
    IF s # <<>> /\ s[Len(s)] \in WhiteSpace THEN TrimEnd(SubSeq(s, 1, Len(s) - 1)) ELSE s

\* String.prototype.trim
Trim(s) == TrimEnd(TrimStart(s))

DigitChar(d) ==
    CASE d = 0 -> "0" [] d = 1 -> "1" [] d = 2 -> "2" [] d = 3 -> "3" [] d = 4 -> "4"
      [] d = 5 -> "5" [] d = 6 -> "6" [] d = 7 -> "7" [] d = 8 -> "8" [] d = 9 -> "9"

\* Number -> string conversion of a template literal, for a non-negative integer.
RECURSIVE NumberToString(_)
NumberToString(n) ==
    IF n < 10 THEN <<DigitChar(n)>>
    ELSE NumberToString(n \div 10) \o <<DigitChar(n % 10)>>

\* s contains t as a contiguous substring.
Contains(s, t) ==
    \E i \in 1..(Len(s) - Len(t) + 1) : SubSeq(s, i, i + Len(t) - 1) = t

(***************************************************************************)
(* JavaScript values, [t |-> type, v |-> value].  The type field t is the   *)
(* first field of every such record, so two values of different types     *)
(* differ by t before their v fields are looked at.                        *)
(***************************************************************************)
JStr(s) == [t |-> "string", v |-> s]
JNum(n) == [t |-> "number", v |-> n]
JArr(a) == [t |-> "array", v |-> a]
\* An object is its list of <<key, value>> properties, in insertion order.
JObj(props) == [t |-> "object", v |-> props]
JNull == [t |-> "null", v |-> 0]
undefined == [t |-> "undefined", v |-> 0]

\* ToBoolean: what `if (x)` and `x || y` test.
Truthy(x) ==
    CASE x.t = "string" -> x.v # <<>>
      [] x.t = "number" -> x.v # 0
      [] x.t \in {"array", "object"} -> TRUE
      [] OTHER -> FALSE

\* Property read x[key] of a non-null value: the last property with that key
\* of an object, undefined for anything else.
RECURSIVE GetProp(_, _)
GetProp(x, key) ==
    IF x.t # "object" \/ x.v = <<>> THEN undefined
    ELSE LET last == x.v[Len(x.v)]
         IN  IF last[1] = key THEN last[2]
             ELSE GetProp(JObj(SubSeq(x.v, 1, Len(x.v) - 1)), key)

HasProp(x, key) == x.t = "object" /\ \E i \in 1..Len(x.v) : x.v[i][1] = key

(***************************************************************************)
(* JSON text: a sequence of tokens.                                        *)
(***************************************************************************)
\* A token is [t |-> kind, v |-> characters]; a number token holds its digits.
TPunct(p) == [t |-> "punct", v |-> <<p>>]
TKey(name) == [t |-> "key", v |-> <<name>>]
TStr(s) == [t |-> "string", v |-> s]
TNum(n) == [t |-> "number", v |-> NumberToString(n)]
TNull == [t |-> "null", v |-> <<>>]

IsPunct(tok, p) == tok.t = "punct" /\ tok.v = <<p>>

DigitValue(ch) ==
    CASE ch = "0" -> 0 [] ch = "1" -> 1 [] ch = "2" -> 2 [] ch = "3" -> 3 [] ch = "4" -> 4
      [] ch = "5" -> 5 [] ch = "6" -> 6 [] ch = "7" -> 7 [] ch = "8" -> 8 [] ch = "9" -> 9

\* The number a digit string denotes.
RECURSIVE StringToNumber(_)
StringToNumber(digits) ==
    IF digits = <<>> THEN 0
    ELSE 10 * StringToNumber(SubSeq(digits, 1, Len(digits) - 1)) + DigitValue(digits[Len(digits)])

RECURSIVE Stringify(_)
RECURSIVE StringifyElements(_)
RECURSIVE StringifyProps(_)

\* Array elements: an undefined element is written as null.
StringifyElements(a) ==
    IF a = <<>> THEN <<>>
    ELSE Stringify(a[1])
         \o (IF Len(a) > 1 THEN <<TPunct(",")>> \o StringifyElements(Tail(a)) ELSE <<>>)

\* Object properties: a property whose value is undefined is left out.
StringifyProps(props) ==
    LET kept == SelectSeq(props, LAMBDA p : p[2].t # "undefined")
    IN  IF kept = <<>> THEN <<>>
        ELSE <<TKey(kept[1][1]), TPunct(":")>> \o Stringify(kept[1][2])
             \o (IF Len(kept) > 1 THEN <<TPunct(",")>> \o StringifyProps(Tail(kept)) ELSE <<>>)

\* JSON.stringify of a value inside a structure.
Stringify(x) ==
    CASE x.t = "string" -> <<TStr(x.v)>>
      [] x.t = "number" -> <<TNum(x.v)>>
      [] x.t \in {"null", "undefined"} -> <<TNull>>
      [] x.t = "array" -> <<TPunct("[")>> \o StringifyElements(x.v) \o <<TPunct("]")>>
      [] x.t = "object" -> <<TPunct("{")>> \o StringifyProps(x.v) \o <<TPunct("}")>>

ParseOk(val, rest) == [ok |-> TRUE, val |-> val, rest |-> rest]
ParseFail == [ok |-> FALSE, val |-> undefined, rest |-> <<>>]

RECURSIVE ParseValue(_)
RECURSIVE ParseElements(_, _)
RECURSIVE ParseProps(_, _)

\* The elements of an array after "[" or after a comma; acc holds those read.
ParseElements(toks, acc) ==
    LET r == ParseValue(toks)
    IN  IF ~r.ok \/ r.rest = <<>> THEN ParseFail
        ELSE IF IsPunct(Head(r.rest), ",")
             THEN ParseElements(Tail(r.rest), Append(acc, r.val))
        ELSE IF IsPunct(Head(r.rest), "]")
             THEN ParseOk(JArr(Append(acc, r.val)), Tail(r.rest))
        ELSE ParseFail

\* The properties of an object after "{" or after a comma.
ParseProps(toks, acc) ==
    IF Len(toks) < 3 \/ Head(toks).t # "key" \/ ~IsPunct(toks[2], ":") THEN ParseFail
    ELSE LET r == ParseValue(Tail(Tail(toks)))
         IN  IF ~r.ok \/ r.rest = <<>> THEN ParseFail
             ELSE IF IsPunct(Head(r.rest), ",")
                  THEN ParseProps(Tail(r.rest), Append(acc, <<Head(toks).v[1], r.val>>))
             ELSE IF IsPunct(Head(r.rest), "}")
                  THEN ParseOk(JObj(Append(acc, <<Head(toks).v[1], r.val>>)), Tail(r.rest))
             ELSE ParseFail

ParseValue(toks) ==
    IF toks = <<>> THEN ParseFail
    ELSE LET h == Head(toks)
         IN  CASE h.t = "string" -> ParseOk(JStr(h.v), Tail(toks))
               [] h.t = "number" -> ParseOk(JNum(StringToNumber(h.v)), Tail(toks))
               [] h.t = "null" -> ParseOk(JNull, Tail(toks))
               [] IsPunct(h, "[") ->
                    IF Len(toks) > 1 /\ IsPunct(toks[2], "]")
                    THEN ParseOk(JArr(<<>>), Tail(Tail(toks)))
                    ELSE ParseElements(Tail(toks), <<>>)
               [] IsPunct(h, "{") ->
                    IF Len(toks) > 1 /\ IsPunct(toks[2], "}")
                    THEN ParseOk(JObj(<<>>), Tail(Tail(toks)))
                    ELSE ParseProps(Tail(toks), <<>>)
               [] OTHER -> ParseFail

\* JSON.parse / Response.json(): the whole text must be one value.
JSONparse(text) ==
    LET r == ParseValue(text)
    IN  IF r.ok /\ r.rest = <<>> THEN r ELSE ParseFail

(***************************************************************************)
(* Errors.                                                                 *)
(***************************************************************************)
\* new Error(message), new TypeError(message), ...
Err(name, message) == [name |-> name, message |-> message]

NoError == Err("", <<>>)

\* Error thrown by the environment (crypto.subtle, the signer, btoa, fetch,
\* Response.json, a property read of null); the message is the environment's.
EnvError(name) == Err(name, <<"e", "n", "v">>)

(***************************************************************************)
(* The signed-request builder: createAuthHeader / createNip98Auth.         *)
(***************************************************************************)
\* Characters outside Latin-1, which btoa rejects; "U+4F8B" stands for one
\* such character.
NonLatin1 == {"U+4F8B"}

\* An optional string argument (payload?: string).
Given(text) == [given |-> TRUE, text |-> text]
NotGiven == [given |-> FALSE, text |-> <<>>]

\* `if (payload)`: an omitted payload and the empty string are both falsy.
PayloadTruthy(payload) == payload.given /\ payload.text # <<>>

\* crypto.subtle.digest('SHA-256', new TextEncoder().encode(payload))
Sha256(text) == [sha256 |-> text]

\* Array.from(new Uint8Array(hash)).map(b => b.toString(16).padStart(2, '0')).join('')
HashHex(hash) == [hex |-> hash]

\* Mutant of NewEvent: the two required tags are written in the other order.
NewEvent_tagsSwapped(url, method, time) ==
    [kind |-> 27235, content |-> <<>>,
     tags |-> << <<"method", method>>, <<"u", url>> >>,
     created_at |-> time]

\* const event = { kind: 27235, content: "", tags: [["u", url], ["method", method]],
\*                 created_at: Math.floor(Date.now() / 1000) }
NewEvent(url, method, time) ==
    [kind |-> 27235, content |-> <<>>,
     tags |-> << <<"u", url>>, <<"method", method>> >>,
     created_at |-> time]

\* event.tags.push(["payload", hashHex])
PushPayloadTag(event, payload) ==
    [event EXCEPT !.tags = Append(@, <<"payload", HashHex(Sha256(payload.text))>>)]

NoEvent == [kind |-> 0, content |-> <<>>, tags |-> <<>>, created_at |-> 0]

\* What window.nostr.signEvent resolves to for a signer holding key pk: the
\* event augmented with its id, the public key and a signature.
SignedBy(event, pk) ==
    [kind |-> event.kind, content |-> event.content, tags |-> event.tags,
     created_at |-> event.created_at,
     id |-> [idOf |-> event, pubkey |-> pk], pubkey |-> pk,
     sig |-> [sigBy |-> pk, over |-> event]]

NoSigned == SignedBy(NoEvent, "")

\* The keys the extension may sign with.
SignerKeys == {"npubA", "npubB"}

\* JSON.stringify(signedEvent)
JSONofEvent(signed) == [json |-> signed]

\* btoa throws InvalidCharacterError when the text holds a character outside
\* Latin-1; JSON.stringify leaves such characters of the "u" tag unescaped.
BtoaThrows(signed) ==
    \E i \in 1..Len(signed.tags) :
        /\ signed.tags[i][1] = "u"
        /\ \E j \in 1..Len(signed.tags[i][2]) : signed.tags[i][2][j] \in NonLatin1

Btoa(text) == [base64 |-> text]

\* Mutant of AuthHeaderValue: the header of the first request sent is kept
\* and attached again.
AuthHeaderValue_cached(signed) ==
    IF netLog # <<>> /\ netLog[1].method = "POST"
    THEN netLog[1].authorization
    ELSE <<S_Nostr, Btoa(JSONofEvent(signed))>>

\* `Nostr ${btoa(JSON.stringify(signedEvent))}`
AuthHeaderValue(signed) == <<S_Nostr, Btoa(JSONofEvent(signed))>>

NoHeader == <<S_Nostr, Btoa(JSONofEvent(NoSigned))>>

(***************************************************************************)
(* The administrative RPC caller: callRelayAPI.                            *)
(***************************************************************************)
\* The components holding a copy of callRelayAPI.  RelayStats uses the copy
\* of ConnectionStatus.tsx; UserManagement and RelaySettings each have one in
\* UserManagement.tsx.
Sites == {"RelayStats", "UserManagement", "RelaySettings", "EventModeration", "EventsList"}

\* Only the copy of the events list wraps the call in try/catch.
HasCatch(site) == site = "EventsList"

\* relayUrl.replace(/^wss?:\/\//, 'https://')
HttpUrl(relayUrl) ==
    IF StartsWith(relayUrl, S_wss) THEN S_https \o SubSeq(relayUrl, Len(S_wss) + 1, Len(relayUrl))
    ELSE IF StartsWith(relayUrl, S_ws) THEN S_https \o SubSeq(relayUrl, Len(S_ws) + 1, Len(relayUrl))
    ELSE relayUrl

\* The params argument, which may be left out: params = [] by default.
ArgList(list) == [given |-> TRUE, list |-> list]
NoArgs == [given |-> FALSE, list |-> <<>>]
DefaultParams(args) == IF args.given THEN args.list ELSE <<>>

\* The object literal { method, params }
Envelope(method, params) == JObj(<< <<"method", JStr(method)>>, <<"params", JArr(params)>> >>)

\* Mutant of Payload: the omitted entries are filtered out before serializing.
Payload_dropsOmitted(method, args) ==
    Stringify(Envelope(method, SelectSeq(DefaultParams(args), LAMBDA x : x.t # "undefined")))

\* const payload = JSON.stringify({ method, params })
Payload(method, args) == Stringify(Envelope(method, DefaultParams(args)))

\* Mutant of Request: the body is serialized again, from an empty params list.
Request_otherBody(id, httpUrl, authHeader, payload) ==
    [call |-> id, url |-> httpUrl, method |-> "POST",
     headers |-> {"Content-Type", "Authorization"},
     contentType |-> "application/nostr+json+rpc", accept |-> "",
     authorization |-> authHeader, hasBody |-> TRUE, body |-> Payload(<<>>, NoArgs),
     mode |-> ""]

\* The init object of fetch(httpUrl, { method: 'POST', headers: {...}, body: payload })
Request(id, httpUrl, authHeader, payload) ==
    [call |-> id, url |-> httpUrl, method |-> "POST",
     headers |-> {"Content-Type", "Authorization"},
     contentType |-> "application/nostr+json+rpc", accept |-> "",
     authorization |-> authHeader, hasBody |-> TRUE, body |-> payload,
     mode |-> ""]

\* response.ok
Ok(response) == response.status >= 200 /\ response.status <= 299

\* new Error(`HTTP ${response.status}: ${response.statusText}`)
HttpError(response) ==
    Err("Error", S_HTTP \o NumberToString(response.status) \o S_colon \o response.statusText)

\* String(x) for the values an error field holds here.
StringOf(x) ==
    CASE x.t = "string" -> x.v
      [] x.t = "number" -> NumberToString(x.v)
      [] OTHER -> <<"[", "o", "b", "j", "e", "c", "t", "]">>

NoResponse == [status |-> 0, statusText |-> <<>>, body |-> <<>>]

Pending == [kind |-> "pending", value |-> undefined, error |-> NoError]
Return(value) == [kind |-> "return", value |-> value, error |-> NoError]
Throw(error) == [kind |-> "throw", value |-> undefined, error |-> error]

\* Mutant of ResultOf: the whole response object is returned.
ResultOf_wholeBody(result) == result

\* return result.result
ResultOf(result) == GetProp(result, "result")

\* Mutant of Leave: every copy lets every failure through.
Leave_rethrows(site, method, error) == Throw(error)

\* How a failure raised inside callRelayAPI leaves it: the events-list copy
\* catches it and returns [] for a method starting with 'list', every other
\* copy (and every other method) lets it through.
Leave(site, method, error) ==
    IF HasCatch(site) /\ StartsWith(method, S_list) THEN Return(JArr(<<>>))
    ELSE Throw(error)

(***************************************************************************)
(* Inputs.                                                                 *)
(***************************************************************************)
eventid1 == <<"e", "v", "e", "n", "t", "i", "d", "1">>
offTopic == <<"o", "f", "f", "-", "t", "o", "p", "i", "c">>
abc123 == <<"a", "b", "c", "1", "2", "3">>
spam == <<"s", "p", "a", "m">>

\* Relay addresses typed into the relay URL field.
RelayUrls ==
    { S_wss \o <<"r", ".", "i", "o">>,
      S_ws \o <<"r", ".", "i", "o">>,
      S_wss \o <<"U+4F8B", ".", "i", "o">> }

\* Addresses given to the information fetches: also one that is already an
\* HTTPS address, one holding a WebSocket scheme after its first character,
\* and one with a port and a path.
InfoUrls ==
    RelayUrls \cup
    { S_https \o <<"r", ".", "i", "o">>,
      <<"x">> \o S_wss \o <<"r", ".", "i", "o">>,
      S_ws \o <<"r", ".", "i", "o", ":", "8", "0", "/", "a">> }

\* Method names passed to callRelayAPI.
Methods == {listbannedpubkeys, banevent}

\* Parameter lists of type (string | number | undefined)[], or none at all.
ParamArgs ==
    { NoArgs,
      ArgList(<<>>),
      ArgList(<<JStr(eventid1), JStr(offTopic)>>),
      ArgList(<<JStr(eventid1), undefined>>),
      ArgList(<<undefined, JStr(offTopic)>>),
      ArgList(<<JStr(<<>>), JNum(0)>>),
      ArgList(<<JNum(30023)>>) }

\* Arguments of a direct use of the builder.
AuthMethods == {"POST", "GET"}
BuilderPayloads == {NotGiven, Given(<<>>), Given(Payload(banevent, ArgList(<<JStr(eventid1)>>)))}

\* Texts typed into a form field: empty, white space only, padded text.
Texts == {<<>>, <<" ">>, <<" ", "a", "b", " ">>}

\* The reason of a record listed by the relay (reason?: string).
ListedReasons == {undefined, JStr(<<>>), JStr(spam)}

\* What the relay may answer.
Statuses == {200, 299, 300, 404}
StatusText(status) == IF status < 300 THEN <<"O", "K">> ELSE <<"N", "o">>
BannedRecords == JArr(<<JObj(<< <<"pubkey", JStr(abc123)>>, <<"reason", JStr(spam)>> >>)>>)
TwoRecords ==
    JArr(<<JObj(<< <<"pubkey", JStr(abc123)>>, <<"reason", JStr(spam)>> >>),
           JObj(<< <<"pubkey", JStr(eventid1)>> >>)>>)
Bodies ==
    { Stringify(JObj(<< <<"result", BannedRecords>> >>)),
      Stringify(JObj(<< <<"result", TwoRecords>> >>)),
      Stringify(JObj(<< <<"error", JStr(spam)>> >>)),
      Stringify(JObj(<< <<"result", BannedRecords>>, <<"error", JStr(spam)>> >>)),
      Stringify(JObj(<< <<"error", JStr(<<>>)>>, <<"result", BannedRecords>> >>)),
      Stringify(JObj(<<>>)),
      <<TNull>>,
      <<TPunct("{")>> }
Responses ==
    {[status |-> st, statusText |-> StatusText(st), body |-> b] : st \in Statuses, b \in Bodies}

(***************************************************************************)
(* State.                                                                  *)
(***************************************************************************)
CallIds == 1..MaxCalls

\* The fields of the form a call was submitted from, as typed; `action` is
\* the action selection of the user form, useState<'ban' | 'allow'>('ban').
Form(ident, reason) == [ident |-> ident, reason |-> reason, action |-> "ban"]
UserForm(newPubkey, newReason, actionType) ==
    [ident |-> newPubkey, reason |-> newReason, action |-> actionType]
NoForm == Form(<<>>, <<>>)

\* A call slot before its invocation.
NoCall ==
    [pc |-> "idle", site |-> "", origin |-> "", entry |-> "",
     relayUrl |-> <<>>, method |-> <<>>, args |-> NoArgs,
     httpUrl |-> <<>>, authMethod |-> "", payload |-> NotGiven,
     event |-> NoEvent, signed |-> NoSigned, authHeader |-> NoHeader,
     response |-> NoResponse, outcome |-> Pending, exit |-> "", steps |-> <<>>,
     form |-> NoForm, cause |-> "", aborted |-> FALSE]

(***************************************************************************)
(* The presentation layer: the queries and mutations the components hand   *)
(* to react-query, their callbacks, the form fields and the toasts.        *)
(***************************************************************************)
\* queryKey: [key, relayUrl] of the list query calling `method`.
QueryKey(method) ==
    CASE method = listbannedpubkeys -> "banned-users"
      [] method = listallowedpubkeys -> "allowed-users"
      [] method = listbannedevents -> "banned-events"
      [] method = listeventsneedingmoderation -> "events-needing-moderation"
      [] method = listallowedkinds -> "allowed-kinds"
      [] OTHER -> ""

\* The list queries each component mounts (useQuery with queryFn
\* () => callRelayAPI(relayUrl, method)).  RelaySettings also lists the
\* blocked addresses, a query of the same shape.
QueriesOf(site) ==
    CASE site = "RelayStats" ->
             {listbannedpubkeys, listallowedpubkeys, listbannedevents,
              listeventsneedingmoderation, listallowedkinds}
      [] site = "UserManagement" -> {listbannedpubkeys, listallowedpubkeys}
      [] site = "RelaySettings" -> {listallowedkinds}
      [] site = "EventModeration" -> {listeventsneedingmoderation, listbannedevents}
      [] site = "EventsList" -> {listbannedevents, listeventsneedingmoderation}
      [] OTHER -> {}

\* The useMutation objects of each component that the handlers drive.
MutationsOf(site) ==
    CASE site = "UserManagement" -> {"banUserMutation", "allowUserMutation"}
      [] site = "RelaySettings" -> {"blockIpMutation"}
      [] site = "EventModeration" -> {"allowEventMutation", "banEventMutation"}
      [] site = "EventsList" -> {"moderateEventMutation"}
      [] OTHER -> {}

\* The components fetching over HTTP without a signature, and their query.
InfoSites == {"ConnectionStatus", "RelayStats", "RelayInfo"}
InfoKey(site) == IF site = "ConnectionStatus" THEN "connection-status" ELSE "relay-info"

\* A control is a query or mutation of one component.
ControlIds ==
    UNION { {<<site, QueryKey(m)>> : m \in QueriesOf(site)} \cup
            {<<site, m>> : m \in MutationsOf(site)} : site \in Sites }
    \cup {<<site, InfoKey(site)>> : site \in InfoSites}

NoControl == <<"", "">>

\* The control whose function made the call c.
ControlOf(c) ==
    CASE c.origin = "useQuery" ->
             IF c.entry = "callRelayAPI" THEN <<c.site, QueryKey(c.method)>>
             ELSE <<c.site, InfoKey(c.site)>>
      [] c.origin = "handleAddUser" /\ c.method = banpubkey -> <<c.site, "banUserMutation">>
      [] c.origin = "handleAddUser" /\ c.method = allowpubkey -> <<c.site, "allowUserMutation">>
      [] c.origin \in {"handleBanEvent", "handleRejectEvent"} -> <<c.site, "banEventMutation">>
      [] c.origin = "handleApproveEvent" -> <<c.site, "allowEventMutation">>
      [] c.origin = "handleBlockIp" -> <<c.site, "blockIpMutation">>
      [] c.origin = "handleModerate" -> <<c.site, "moderateEventMutation">>
      [] OTHER -> NoControl

IsMutation(k) == k[2] \in MutationsOf(k[1])

\* The state react-query keeps for a query or mutation.  `stale` is
\* isInvalidated; `refetch` holds from invalidateQueries marking the query
\* until its query function is called again.
ControlState(status, error, data, stale) ==
    [status |-> status, error |-> error, data |-> data, stale |-> stale,
     refetch |-> FALSE]
IdleControl == ControlState("idle", NoError, undefined, FALSE)

\* ui.user is useCurrentUser().user (logged in or not) and ui.relayUrl the
\* relay address handed to the components as a prop.  Only the actions of
\* the page (SpecLogin) read them; the other specifications invoke the
\* handlers with the address as an input.

\* The text fields and the dialog of the form of a component.
FormSites == {"UserManagement", "RelaySettings", "EventModeration", "EventsList"}
FormState(ident, reason, open) ==
    [ident |-> ident, reason |-> reason, open |-> open, action |-> "ban"]
\* The form as the operator left it when submitting.
Typed(form) ==
    [ident |-> form.ident, reason |-> form.reason, open |-> TRUE, action |-> form.action]
ClosedForm == FormState(<<>>, <<>>, FALSE)

\* toast({ title, description, variant })
Toast(title, description, variant) ==
    [title |-> title, description |-> description, variant |-> variant]

\* title of the toast of onError
FailTitle(k, c) ==
    CASE k[2] = "banUserMutation" -> "Failed to ban user"
      [] k[2] = "allowUserMutation" -> "Failed to allow user"
      [] k[2] = "allowEventMutation" -> "Failed to approve event"
      [] k[2] = "banEventMutation" -> "Failed to ban event"
      [] k[2] = "blockIpMutation" -> "Failed to block IP"
      [] OTHER -> IF c.method = allowevent THEN "Failed to allow event"
                  ELSE "Failed to ban event"

\* title of the toast of onSuccess
SuccessTitle(k, c) ==
    CASE k[2] = "banUserMutation" -> "User banned successfully"
      [] k[2] = "allowUserMutation" -> "User allowed successfully"
      [] k[2] = "allowEventMutation" -> "Event approved successfully"
      [] k[2] = "banEventMutation" -> "Event banned successfully"
      [] k[2] = "blockIpMutation" -> "IP blocked successfully"
      [] OTHER -> IF c.method = allowevent THEN "Event approved" ELSE "Event banned"

\* description of the toast of onSuccess: only the events list writes one,
\* `Event ${eventId.slice(0, 8)}... has been ${approved | banned}.`
SuccessText(k, c) ==
    IF k[2] = "moderateEventMutation"
    THEN LET eventId == c.args.list[1].v
         IN  S_Event \o SubSeq(eventId, 1, IF Len(eventId) < 8 THEN Len(eventId) ELSE 8)
                     \o S_hasBeen
                     \o (IF c.method = allowevent THEN S_approved ELSE S_banned) \o <<".">>
    ELSE <<>>

\* description of the "Invalid input" toast of a handler
InvalidInputText(site) ==
    CASE site = "UserManagement" -> S_validPubkey
      [] site = "EventModeration" -> S_validEventId
      [] OTHER -> S_validIp

\* An onSuccess of the user mutations that invalidates both user lists.
Invalidates_bothUserLists(k) ==
    IF k[2] \in {"banUserMutation", "allowUserMutation"}
    THEN {"banned-users", "allowed-users"}
    ELSE {}

\* The query keys onSuccess passes to queryClient.invalidateQueries.
Invalidates(k) ==
    CASE k[2] = "banUserMutation" -> {"banned-users"}
      [] k[2] = "allowUserMutation" -> {"allowed-users"}
      [] k[2] = "allowEventMutation" -> {"events-needing-moderation"}
      [] k[2] = "banEventMutation" -> {"events-needing-moderation", "banned-events"}
      [] k[2] = "moderateEventMutation" -> {"banned-events", "events-needing-moderation"}
      [] k[2] = "blockIpMutation" -> {"blocked-ips"}
      [] OTHER -> {}

\* The mutations whose onSuccess closes the dialog and clears the text
\* fields; no callback writes the action selection.
ResetsForm(k) == k[2] \in {"banUserMutation", "allowUserMutation", "banEventMutation", "blockIpMutation"}

\* The events list's selection (kindFilter, limit, customKind) and its
\* events query: the filter last passed to nostr.query and the data shown.
NoFilter == [limit |-> 0, hasKinds |-> FALSE, kinds |-> <<>>]
NoEvents ==
    [kindFilter |-> <<"a", "l", "l">>, limit |-> 20, customKind |-> <<>>,
     status |-> "idle", filter |-> NoFilter, data |-> <<>>]

NoUI ==
    [toasts |-> <<>>,
     controls |-> [k \in ControlIds |-> IdleControl],
     forms |-> [site \in FormSites |-> ClosedForm],
     events |-> NoEvents,
     user |-> FALSE,
     relayUrl |-> S_wss \o <<"r", ".", "i", "o">>]

\* The handler runs: the fields are as typed; mutate() / the query function
\* starts and the control is pending.  EventCard.handleModerate closes its
\* dialog and clears the reason right after calling onModerate.
Start(u, c) ==
    LET k == ControlOf(c)
        typed == IF c.origin \in {"handleAddUser", "handleBanEvent", "handleBlockIp"}
                 THEN [u EXCEPT !.forms[c.site] = Typed(c.form)]
                 ELSE u
    IN  IF k = NoControl THEN typed
        ELSE [typed EXCEPT !.controls[k].status = "pending",
                           !.controls[k].refetch = FALSE]

\* A settle whose failure clears the whole interface.
Settle_resetsAll(u, c) ==
    IF c.outcome.kind = "throw" THEN NoUI
    ELSE [u EXCEPT !.controls[ControlOf(c)].status = "success"]

\* The promise of the call settles: onError / onSuccess of a mutation, the
\* error or data of a query.
Settle(u, c) ==
    LET k == ControlOf(c)
    IN  IF k = NoControl THEN u
        ELSE IF c.outcome.kind = "throw"
        THEN [u EXCEPT !.controls[k].status = "error",
                       !.controls[k].error = c.outcome.error,
                       !.toasts = IF IsMutation(k)
                                  THEN Append(@, Toast(FailTitle(k, c), c.outcome.error.message,
                                                       "destructive"))
                                  ELSE @]
        ELSE [u EXCEPT !.controls =
                           [j \in ControlIds |->
                               IF j = k
                               THEN [ControlState("success", NoError, c.outcome.value, FALSE)
                                         EXCEPT !.refetch = u.controls[k].refetch]
                               ELSE IF IsMutation(k) /\ j[2] \in Invalidates(k)
                               THEN [u.controls[j] EXCEPT !.stale = TRUE, !.refetch = TRUE]
                               ELSE u.controls[j]],
                       !.toasts = IF IsMutation(k)
                                  THEN Append(@, Toast(SuccessTitle(k, c), SuccessText(k, c), "default"))
                                  ELSE @,
                       !.forms = IF ResetsForm(k)
                                 THEN [@ EXCEPT ![k[1]] =
                                          [@ EXCEPT !.ident = <<>>, !.reason = <<>>,
                                                    !.open = FALSE]]
                                 ELSE @]

\* A handler refuses its input with a toast; the fields stay as typed.
Refused(u, c) ==
    [u EXCEPT !.forms[c.site] = Typed(c.form),
              !.toasts = Append(@, Toast("Invalid input", InvalidInputText(c.site), "destructive"))]

\* The components that render the error of a failed list query
\* ("Failed to load ...: {error.message}").  RelayStats and EventsList read
\* only `data` of their list queries and show a count of 0 or no mark.
RendersQueryError(site) == site \in {"UserManagement", "RelaySettings", "EventModeration"}

\* What a step of call id does to the presentation layer.
Render(id) ==
    LET old == calls[id]
        new == calls'[id]
        started == IF old.pc = "idle" /\ new.exit # "invalid input" THEN Start(ui, new) ELSE ui
    IN  ui' = IF new.exit = "invalid input" THEN Refused(ui, new)
              ELSE IF new.pc = "done" THEN Settle(started, new)
              ELSE started

Init ==
    /\ nostr \in BOOLEAN
    /\ now = 0
    /\ calls = [id \in CallIds |-> NoCall]
    /\ signLog = <<>>
    /\ netLog = <<>>
    /\ ui = NoUI

\* Mutant of Failed: the failed call is put back to the signing step (a retry).
Failed_retries(c, exit, error) ==
    [c EXCEPT !.pc = "signing", !.exit = exit, !.steps = Append(@, "fail")]

\* A call that ends by a failure raised at `exit`: the builder used alone
\* throws; callRelayAPI leaves through its catch block if it has one.
Failed(c, exit, error) ==
    [c EXCEPT !.pc = "done", !.exit = exit,
              !.steps = Append(@, "fail"),
              !.outcome = IF c.entry = "callRelayAPI"
                          THEN Leave(c.site, c.method, error)
                          ELSE Throw(error)]

\* Mutant of SignEvent: the signer is asked twice for the same event.
SignEvent_twice(id, c) ==
    /\ calls' = [calls EXCEPT ![id] = [c EXCEPT !.pc = "signing", !.steps = Append(@, "sign")]]
    /\ signLog' = signLog \o <<[call |-> id, event |-> c.event], [call |-> id, event |-> c.event]>>

\* window.nostr.signEvent(event) is invoked.
SignEvent(id, c) ==
    /\ calls' = [calls EXCEPT ![id] = [c EXCEPT !.pc = "signing", !.steps = Append(@, "sign")]]
    /\ signLog' = Append(signLog, [call |-> id, event |-> c.event])

\* Mutant of EnterBuilder: the attestation names the relay address as it was
\* typed, not the address the request goes to.
EnterBuilder_signsRelayUrl(id, c) ==
    /\ nostr
    /\ calls' = [calls EXCEPT ![id] =
                    [c EXCEPT !.event = NewEvent(c.relayUrl, c.authMethod, now),
                              !.pc = "hashing"]]
    /\ UNCHANGED signLog

\* createAuthHeader up to its first await, for the call record c holding its
\* arguments (httpUrl, authMethod, payload).
EnterBuilder(id, c) ==
    IF ~nostr
    THEN /\ calls' = [calls EXCEPT ![id] =
                         Failed(c, "missing signer", Err("Error", S_extensionNotFound))]
         /\ UNCHANGED signLog
    ELSE LET built == [c EXCEPT !.event = NewEvent(c.httpUrl, c.authMethod, now),
                                !.steps = Append(@, "build")]
         IN  IF PayloadTruthy(c.payload)
             THEN /\ calls' = [calls EXCEPT ![id] =
                                  [built EXCEPT !.pc = "hashing", !.steps = Append(@, "digest")]]
                  /\ UNCHANGED signLog
             ELSE SignEvent(id, built)

\* callRelayAPI(relayUrl, method, params) is invoked by `origin` in `site`,
\* from the form fields `form`.
Invoke(id, site, origin, form, relayUrl, method, args) ==
    /\ calls[id].pc = "idle"
    /\ EnterBuilder(id, [NoCall EXCEPT !.site = site, !.origin = origin,
                                       !.form = form,
                                       !.entry = "callRelayAPI",
                                       !.relayUrl = relayUrl, !.method = method,
                                       !.args = args,
                                       !.httpUrl = HttpUrl(relayUrl),
                                       !.authMethod = "POST",
                                       !.payload = Given(Payload(method, args))])
    /\ UNCHANGED <<nostr, now, netLog>>
    /\ Render(id)

(***************************************************************************)
(* Actions.                                                                *)
(***************************************************************************)
\* Any invocation of callRelayAPI.
callRelayAPI(id) ==
    \E site \in Sites, relayUrl \in RelayUrls, method \in Methods, args \in ParamArgs :
        Invoke(id, site, "call", NoForm, relayUrl, method, args)

\* Any invocation of the builder alone.
createAuthHeader(id) ==
    \E site \in Sites, relayUrl \in RelayUrls, method \in AuthMethods, payload \in BuilderPayloads :
        /\ calls[id].pc = "idle"
        /\ EnterBuilder(id, [NoCall EXCEPT !.site = site, !.origin = "builder",
                                           !.entry = "createAuthHeader",
                                           !.httpUrl = HttpUrl(relayUrl),
                                           !.authMethod = method,
                                           !.payload = payload])
        /\ UNCHANGED <<nostr, now, netLog>>
        /\ Render(id)

\* Mutant of TrimOrUndefined: the trimmed text is passed on even when empty.
TrimOrUndefined_keepsEmpty(text) == JStr(Trim(text))

\* `text.trim() || undefined`
TrimOrUndefined(text) == IF Truthy(JStr(Trim(text))) THEN JStr(Trim(text)) ELSE undefined

\* A handler refuses its input: toast({ title: "Invalid input", ... }); return.
\* The slot records the refused submission; callRelayAPI is not entered.
Refuse(id, site, origin, form) ==
    /\ calls[id].pc = "idle"
    /\ calls' = [calls EXCEPT ![id] =
                    [NoCall EXCEPT !.pc = "done", !.site = site, !.origin = origin,
                                   !.form = form, !.exit = "invalid input"]]
    /\ UNCHANGED <<nostr, now, signLog, netLog>>
    /\ Render(id)

\* UserManagement.handleAddUser: a blank pubkey is refused; otherwise the ban
\* or allow mutation runs
\* callRelayAPI(relayUrl, 'banpubkey' | 'allowpubkey', [pubkey, reason]).
AddUser(id, relayUrl, newPubkey, newReason, actionType) ==
    IF ~Truthy(JStr(Trim(newPubkey)))
    THEN Refuse(id, "UserManagement", "handleAddUser", UserForm(newPubkey, newReason, actionType))
    ELSE Invoke(id, "UserManagement", "handleAddUser", UserForm(newPubkey, newReason, actionType),
                relayUrl, IF actionType = "ban" THEN banpubkey ELSE allowpubkey,
                ArgList(<<JStr(Trim(newPubkey)), TrimOrUndefined(newReason)>>))

\* The form is submitted with any texts typed.
handleAddUser(id) ==
    \E relayUrl \in RelayUrls, newPubkey \in Texts, newReason \in Texts,
       actionType \in {"ban", "allow"} :
        AddUser(id, relayUrl, newPubkey, newReason, actionType)

\* EventModeration.handleBanEvent -> banEventMutation.
handleBanEvent(id) ==
    \E relayUrl \in RelayUrls, newEventId \in Texts, newReason \in Texts :
        IF ~Truthy(JStr(Trim(newEventId)))
        THEN Refuse(id, "EventModeration", "handleBanEvent", Form(newEventId, newReason))
        ELSE Invoke(id, "EventModeration", "handleBanEvent", Form(newEventId, newReason),
                    relayUrl, banevent,
                    ArgList(<<JStr(Trim(newEventId)), TrimOrUndefined(newReason)>>))

\* EventModeration.handleRejectEvent(event.id, event.reason) of a listed
\* pending event: the listed reason is passed on as it is.
handleRejectEvent(id) ==
    \E relayUrl \in RelayUrls, reason \in ListedReasons :
        Invoke(id, "EventModeration", "handleRejectEvent", NoForm,
               relayUrl, banevent, ArgList(<<JStr(eventid1), reason>>))

\* EventModeration.handleApproveEvent(event.id): mutate({ eventId }), no reason.
handleApproveEvent(id) ==
    \E relayUrl \in RelayUrls :
        Invoke(id, "EventModeration", "handleApproveEvent", NoForm,
               relayUrl, allowevent, ArgList(<<JStr(eventid1), undefined>>))

\* RelaySettings.handleBlockIp -> blockIpMutation.
handleBlockIp(id) ==
    \E relayUrl \in RelayUrls, newIp \in Texts, newIpReason \in Texts :
        IF ~Truthy(JStr(Trim(newIp)))
        THEN Refuse(id, "RelaySettings", "handleBlockIp", Form(newIp, newIpReason))
        ELSE Invoke(id, "RelaySettings", "handleBlockIp", Form(newIp, newIpReason),
                    relayUrl, blockip,
                    ArgList(<<JStr(Trim(newIp)), TrimOrUndefined(newIpReason)>>))

\* EventsList: EventCard.handleModerate -> handleModerateEvent ->
\* moderateEventMutation, for a displayed event.
handleModerate(id) ==
    \E relayUrl \in RelayUrls, moderationAction \in {"allow", "ban"},
       moderationReason \in Texts :
        Invoke(id, "EventsList", "handleModerate", Form(eventid1, moderationReason),
               relayUrl, IF moderationAction = "allow" THEN allowevent ELSE banevent,
               ArgList(<<JStr(eventid1), TrimOrUndefined(moderationReason)>>))

\* crypto.subtle.digest resolves: the payload tag is pushed and the signer is asked.
digestResolve(id) ==
    /\ calls[id].pc = "hashing"
    /\ SignEvent(id, [calls[id] EXCEPT !.event = PushPayloadTag(@, calls[id].payload)])
    /\ UNCHANGED <<nostr, now, netLog>>
    /\ Render(id)

\* crypto.subtle is unavailable (insecure context) or the digest fails.
digestReject(id) ==
    /\ calls[id].pc = "hashing"
    /\ calls' = [calls EXCEPT ![id] = Failed(@, "digest", EnvError("TypeError"))]
    /\ UNCHANGED <<nostr, now, signLog, netLog>>
    /\ Render(id)

\* Mutant of Signed: the signer's key is also appended to the address the
\* request is sent to.
Signed_leaks(id, pk) ==
    LET c == calls[id]
        signed == SignedBy(c.event, pk)
        header == AuthHeaderValue(signed)
        got == [c EXCEPT !.signed = signed, !.steps = Append(@, "signed")]
    IN  /\ c.pc = "signing"
        /\ IF c.entry = "createAuthHeader"
           THEN /\ calls' = [calls EXCEPT ![id] =
                                [got EXCEPT !.pc = "done", !.authHeader = header,
                                            !.exit = "header",
                                            !.outcome = Return(undefined)]]
                /\ UNCHANGED netLog
           ELSE /\ calls' = [calls EXCEPT ![id] =
                                [got EXCEPT !.pc = "fetching", !.authHeader = header]]
                /\ netLog' = Append(netLog, Request(id, c.httpUrl \o <<"?", pk>>, header,
                                                    c.payload.text))
        /\ UNCHANGED <<nostr, now, signLog>>
        /\ Render(id)

\* signEvent resolves: the header is encoded and, in callRelayAPI, fetch is called.
Signed(id, pk) ==
    LET c == calls[id]
        signed == SignedBy(c.event, pk)
        header == AuthHeaderValue(signed)
        got == [c EXCEPT !.signed = signed, !.steps = Append(@, "signed")]
    IN  /\ c.pc = "signing"
        /\ IF BtoaThrows(signed)
           THEN /\ calls' = [calls EXCEPT ![id] =
                                Failed(got, "encoding", EnvError("InvalidCharacterError"))]
                /\ UNCHANGED netLog
           ELSE IF c.entry = "createAuthHeader"
           THEN /\ calls' = [calls EXCEPT ![id] =
                                [got EXCEPT !.pc = "done", !.authHeader = header,
                                            !.exit = "header",
                                            !.steps = Append(@, "return"),
                                            !.outcome = Return(undefined)]]
                /\ UNCHANGED netLog
           ELSE /\ calls' = [calls EXCEPT ![id] =
                                [got EXCEPT !.pc = "fetching", !.authHeader = header,
                                            !.steps = Append(@, "send")]]
                /\ netLog' = Append(netLog, Request(id, c.httpUrl, header, c.payload.text))
        /\ UNCHANGED <<nostr, now, signLog>>
        /\ Render(id)

\* The extension signs with any of its keys.
signResolve(id) == \E pk \in SignerKeys : Signed(id, pk)

\* The operator declines in the extension, or the extension fails.
signReject(id) ==
    /\ calls[id].pc = "signing"
    /\ calls' = [calls EXCEPT ![id] = Failed(@, "signer", EnvError("Error"))]
    /\ UNCHANGED <<nostr, now, signLog, netLog>>
    /\ Render(id)

\* fetch resolves with a response: the status check, then response.json() is awaited.
\* Mutant of Responded: one response is handed to every call that is waiting
\* for one (the requests are coalesced).
Responded_coalesced(id, response) ==
    /\ calls[id].pc = "fetching"
    /\ calls' = [j \in CallIds |->
                    IF calls[j].pc # "fetching" THEN calls[j]
                    ELSE IF ~Ok(response)
                    THEN Failed([calls[j] EXCEPT !.response = response], "status",
                                HttpError(response))
                    ELSE [calls[j] EXCEPT !.response = response, !.pc = "parsing",
                                          !.steps = Append(@, "parse")]]
    /\ UNCHANGED <<nostr, now, signLog, netLog>>
    /\ Render(id)

Responded(id, response) ==
    LET got == [calls[id] EXCEPT !.response = response]
    IN  /\ calls[id].pc = "fetching"
        /\ calls' = [calls EXCEPT ![id] =
                        IF ~Ok(response)
                        THEN Failed(got, "status", HttpError(response))
                        ELSE [got EXCEPT !.pc = "parsing", !.steps = Append(@, "parse")]]
        /\ UNCHANGED <<nostr, now, signLog, netLog>>
        /\ Render(id)

\* The relay answers with any status and body.
fetchResolve(id) == \E response \in Responses : Responded(id, response)

\* fetch rejects: the relay is unreachable or the request is blocked.
fetchReject(id) ==
    /\ calls[id].pc = "fetching"
    /\ calls' = [calls EXCEPT ![id] = Failed(@, "transport", EnvError("TypeError"))]
    /\ UNCHANGED <<nostr, now, signLog, netLog>>
    /\ Render(id)

\* response.json() resolves: the error check and the return of result.result.
jsonResolve(id) ==
    LET c == calls[id]
        result == JSONparse(c.response.body).val
    IN  /\ c.pc = "parsing"
        /\ JSONparse(c.response.body).ok
        /\ calls' = [calls EXCEPT ![id] =
                        IF result.t = "null"
                        THEN Failed(c, "null body", EnvError("TypeError"))
                        ELSE IF Truthy(GetProp(result, "error"))
                        THEN Failed(c, "error field",
                                    Err("Error", StringOf(GetProp(result, "error"))))
                        ELSE [c EXCEPT !.pc = "done", !.exit = "result",
                                       !.steps = Append(@, "return"),
                                       !.outcome = Return(ResultOf(result))]]
        /\ UNCHANGED <<nostr, now, signLog, netLog>>
        /\ Render(id)

\* response.json() rejects: the body is not JSON.
jsonReject(id) ==
    /\ calls[id].pc = "parsing"
    /\ ~JSONparse(calls[id].response.body).ok
    /\ calls' = [calls EXCEPT ![id] = Failed(@, "body", EnvError("SyntaxError"))]
    /\ UNCHANGED <<nostr, now, signLog, netLog>>
    /\ Render(id)

(***************************************************************************)
(* The unauthenticated fetches of the relay information document:          *)
(* checkRelayConnection (ConnectionStatus), fetchRelayInfo (RelayStats)    *)
(* and fetchRelayInfo (RelayInfo).                                         *)
(***************************************************************************)
\* An information request that carries the attestation header of the RPC.
InfoRequest_authorized(id, httpUrl, mode) ==
    [call |-> id, url |-> httpUrl, method |-> "GET",
     headers |-> {"Accept", "Authorization"},
     contentType |-> "", accept |-> "application/nostr+json",
     authorization |-> calls[id].authHeader, hasBody |-> FALSE, body |-> <<>>,
     mode |-> mode]

\* The init object of fetch(httpUrl, { headers: { 'Accept': ... }, mode? }):
\* no method (GET), no body, no Authorization header.
InfoRequest(id, httpUrl, mode) ==
    [call |-> id, url |-> httpUrl, method |-> "GET",
     headers |-> {"Accept"},
     contentType |-> "", accept |-> "application/nostr+json",
     authorization |-> NoHeader, hasBody |-> FALSE, body |-> <<>>,
     mode |-> mode]

\* mode: 'cors' is passed by checkRelayConnection and by the RelayInfo copy.
InfoMode(site) == IF site = "RelayStats" THEN "" ELSE "cors"

\* How fetch may reject.  Every network error is a TypeError; its message is
\* the browser's.  A blocked cross-origin request is reported with the same
\* message as an unreachable host, or with a message naming CORS (the one
\* the code looks for).
FetchRejections ==
    { [cause |-> "cors", error |-> Err("TypeError", S_FailedToFetch)],
      [cause |-> "cors", error |-> Err("TypeError", S_corsNamed)],
      [cause |-> "unreachable", error |-> Err("TypeError", S_FailedToFetch)],
      [cause |-> "unreachable", error |-> Err("TypeError", S_LoadFailed)] }

\* { status, error } returned by checkRelayConnection
StatusObject(status, error) == JObj(<< <<"status", JStr(status)>>, <<"error", JStr(error)>> >>)

\* { status: 'connected', info }
ConnectedObject(info) == JObj(<< <<"status", JStr(S_connected)>>, <<"info", info>> >>)

\* The catch blocks: what a failure raised inside the try block becomes.
\* The RelayStats copy has no try/catch.
InfoCatch(site, error) ==
    CASE site = "ConnectionStatus" ->
             IF error.name = "TypeError" /\ Contains(error.message, S_CORS)
             THEN Return(StatusObject(S_cors_error, S_CORSnotSupported))
             ELSE IF error.name = "TypeError" /\ Contains(error.message, S_FailedToFetch)
             THEN Return(StatusObject(S_network_error, S_NetworkError))
             ELSE Return(StatusObject(S_error, error.message))
      [] site = "RelayInfo" ->
             IF error.name = "TypeError" /\ Contains(error.message, S_CORS)
             THEN Throw(Err("Error", S_CORSerrorLong))
             ELSE IF error.name = "TypeError" /\ Contains(error.message, S_FailedToFetch)
             THEN Throw(Err("Error", S_NetworkErrorLong))
             ELSE Throw(error)
      [] OTHER -> Throw(error)

\* What each copy does with a response whose status is not 2xx.
InfoNotOk(site, response) ==
    CASE site = "ConnectionStatus" ->
             Return(StatusObject(S_http_error, S_HTTP \o NumberToString(response.status)))
      [] site = "RelayInfo" -> InfoCatch(site, HttpError(response))
      [] OTHER -> Throw(Err("Error", S_FailedInfo \o response.statusText))

\* What each copy returns for the parsed document.
InfoData(site, data) ==
    IF site = "ConnectionStatus" THEN Return(ConnectedObject(data)) ELSE Return(data)

\* An information fetch ends.
InfoDone(c, exit, outcome) ==
    [c EXCEPT !.pc = "done", !.exit = exit, !.outcome = outcome]

\* The query function of an information query runs up to its await of fetch.
InfoInvoke(id, site, entry, relayUrl) ==
    /\ calls[id].pc = "idle"
    /\ calls' = [calls EXCEPT ![id] =
                    [NoCall EXCEPT !.pc = "infoFetching", !.site = site,
                                   !.origin = "useQuery", !.entry = entry,
                                   !.relayUrl = relayUrl, !.httpUrl = HttpUrl(relayUrl),
                                   !.authMethod = "GET"]]
    /\ netLog' = Append(netLog, InfoRequest(id, HttpUrl(relayUrl), InfoMode(site)))
    /\ UNCHANGED <<nostr, now, signLog>>
    /\ Render(id)

\* ConnectionStatus: queryFn: () => checkRelayConnection(relayUrl)
checkRelayConnection(id) ==
    \E relayUrl \in InfoUrls :
        InfoInvoke(id, "ConnectionStatus", "checkRelayConnection", relayUrl)

\* RelayStats and RelayInfo: queryFn: () => fetchRelayInfo(relayUrl)
fetchRelayInfo(id) ==
    \E site \in {"RelayStats", "RelayInfo"}, relayUrl \in InfoUrls :
        InfoInvoke(id, site, "fetchRelayInfo", relayUrl)

\* fetch resolves: the status check, then response.json() is awaited.
infoFetchResolve(id) ==
    \E response \in Responses :
        LET got == [calls[id] EXCEPT !.response = response]
        IN  /\ calls[id].pc = "infoFetching"
            /\ calls' = [calls EXCEPT ![id] =
                            IF ~Ok(response)
                            THEN InfoDone(got, "status", InfoNotOk(got.site, response))
                            ELSE [got EXCEPT !.pc = "infoParsing"]]
            /\ UNCHANGED <<nostr, now, signLog, netLog>>
            /\ Render(id)

\* fetch rejects: the relay is unreachable, or the browser blocks the
\* cross-origin request.
infoFetchReject(id) ==
    \E rejection \in FetchRejections :
        /\ calls[id].pc = "infoFetching"
        /\ calls' = [calls EXCEPT ![id] =
                        InfoDone([calls[id] EXCEPT !.cause = rejection.cause], "transport",
                                 InfoCatch(calls[id].site, rejection.error))]
        /\ UNCHANGED <<nostr, now, signLog, netLog>>
        /\ Render(id)

\* response.json() resolves with the document.
infoJsonResolve(id) ==
    /\ calls[id].pc = "infoParsing"
    /\ JSONparse(calls[id].response.body).ok
    /\ calls' = [calls EXCEPT ![id] =
                    InfoDone(@, "result",
                             InfoData(@.site, JSONparse(@.response.body).val))]
    /\ UNCHANGED <<nostr, now, signLog, netLog>>
    /\ Render(id)

\* response.json() rejects: the body is not JSON.
infoJsonReject(id) ==
    /\ calls[id].pc = "infoParsing"
    /\ ~JSONparse(calls[id].response.body).ok
    /\ calls' = [calls EXCEPT ![id] =
                    InfoDone(@, "body", InfoCatch(@.site, EnvError("SyntaxError")))]
    /\ UNCHANGED <<nostr, now, signLog, netLog>>
    /\ Render(id)

\* A list query of a component runs its query function:
\* queryFn: () => callRelayAPI(relayUrl, method), enabled once a user is
\* logged in.
Query(id, site, relayUrl, method) ==
    Invoke(id, site, "useQuery", NoForm, relayUrl, method, NoArgs)

\* Any list query of any component.
useQuery(id) ==
    \E site \in Sites, relayUrl \in RelayUrls :
        \E method \in QueriesOf(site) : Query(id, site, relayUrl, method)

\* The browser extension injects window.nostr after the page has loaded.
injectExtension ==
    /\ ~nostr
    /\ nostr' = TRUE
    /\ UNCHANGED <<now, calls, signLog, netLog, ui>>

\* A second passes.
Tick ==
    /\ now < MaxTime
    /\ now' = now + 1
    /\ UNCHANGED <<nostr, calls, signLog, netLog, ui>>

Step(id) ==
    \/ callRelayAPI(id)
    \/ createAuthHeader(id)
    \/ handleAddUser(id)
    \/ handleBanEvent(id)
    \/ handleRejectEvent(id)
    \/ handleApproveEvent(id)
    \/ handleBlockIp(id)
    \/ handleModerate(id)
    \/ digestResolve(id)
    \/ digestReject(id)
    \/ signResolve(id)
    \/ signReject(id)
    \/ fetchResolve(id)
    \/ fetchReject(id)
    \/ jsonResolve(id)
    \/ jsonReject(id)
    \/ useQuery(id)
    \/ checkRelayConnection(id)
    \/ fetchRelayInfo(id)
    \/ infoFetchResolve(id)
    \/ infoFetchReject(id)
    \/ infoJsonResolve(id)
    \/ infoJsonReject(id)

\* One invocation, with any input, signer and relay behaviour.
Next ==
    \/ Step(1)
    \/ injectExtension
    \/ Tick

Spec == Init /\ [][Next]_vars

(***************************************************************************)
(* Several calls at once: the list queries a component mounts together     *)
(* and a mutation submitted while they run.  Every slot of calls is one    *)
(* invocation; the slots interleave at their awaits.                       *)
(***************************************************************************)
\* The relay the dashboard is pointed at.
ConcRelay == S_wss \o <<"r", ".", "i", "o">>

\* The answers of that relay: a result, an error, a refusal.
ConcResponses ==
    { [status |-> 200, statusText |-> StatusText(200),
       body |-> Stringify(JObj(<< <<"result", BannedRecords>> >>))],
      [status |-> 200, statusText |-> StatusText(200),
       body |-> Stringify(JObj(<< <<"error", JStr(spam)>> >>))],
      [status |-> 404, statusText |-> StatusText(404), body |-> Stringify(JObj(<<>>))] }

\* The key the operator's extension signs with.
ConcKey == "npubA"

\* react-query runs a mutation or a query function once at a time per
\* control: the submit button is disabled while its mutation is pending,
\* and a query that is fetching is not fetched again.
Starts(id) ==
    /\ ui.controls[ControlOf(calls'[id])].status # "pending"

\* The list queries the overview starts together; two of its five are
\* followed, the other three are further copies of the same call.
ConcQueries == {listbannedpubkeys, listallowedpubkeys}

\* The overview mounts: its list queries start.
mountQueries(id) ==
    \E method \in ConcQueries :
        /\ Query(id, "RelayStats", ConcRelay, method)
        /\ Starts(id)

\* The operator submits the add-user form with a pubkey and no reason.
submitAddUser(id) ==
    /\ AddUser(id, ConcRelay, <<" ", "a", "b", " ">>, <<>>, "ban")
    /\ Starts(id)

\* The extension answers with the operator's key.
signerSigns(id) == Signed(id, ConcKey)

\* The relay answers.
relayResponds(id) == \E response \in ConcResponses : Responded(id, response)

StepConc(id) ==
    \/ mountQueries(id)
    \/ submitAddUser(id)
    \/ digestResolve(id)
    \/ signerSigns(id)
    \/ signReject(id)
    \/ relayResponds(id)
    \/ fetchReject(id)
    \/ jsonResolve(id)

\* Up to MaxCalls invocations, interleaved in every way.
NextConc == \E id \in CallIds : StepConc(id)

SpecConc == Init /\ [][NextConc]_vars

(***************************************************************************)
(* Cancellation: react-query hands every query function an AbortSignal    *)
(* and aborts it when the query is cancelled.                              *)
(***************************************************************************)
\* The caller aborts its signal while the request is in flight.
\* callRelayAPI takes no signal and passes none to fetch, so the request and
\* the call go on.
abort(id) ==
    /\ calls[id].pc = "fetching"
    /\ ~calls[id].aborted
    /\ calls' = [calls EXCEPT ![id].aborted = TRUE]
    /\ UNCHANGED <<nostr, now, signLog, netLog>>
    /\ Render(id)

StepCancel(id) ==
    \/ mountQueries(id)
    \/ submitAddUser(id)
    \/ digestResolve(id)
    \/ signerSigns(id)
    \/ abort(id)
    \/ fetchResolve(id)
    \/ fetchReject(id)
    \/ jsonResolve(id)
    \/ jsonReject(id)

\* One invocation whose caller may cancel it.
NextCancel == StepCancel(1)

SpecCancel == Init /\ [][NextCancel]_vars

(***************************************************************************)
(* The events list: the two list queries that mark the displayed events,   *)
(* and the marking itself.                                                 *)
(***************************************************************************)
eventid2 == <<"e", "v", "e", "n", "t", "i", "d", "2">>
eventid3 == <<"e", "v", "e", "n", "t", "i", "d", "3">>

\* The ids of the events on display.
EventIds == {eventid1, eventid2, eventid3}

\* { id, reason? } as listed by listbannedevents / listeventsneedingmoderation
Listed(id, reason) ==
    IF reason = undefined THEN JObj(<< <<"id", JStr(id)>> >>)
    ELSE JObj(<< <<"id", JStr(id)>>, <<"reason", reason>> >>)

\* The lists the relay may answer with.
EventLists ==
    { JArr(<<>>),
      JArr(<<Listed(eventid1, JStr(spam))>>),
      JArr(<<Listed(eventid1, undefined), Listed(eventid2, JStr(offTopic))>>),
      JArr(<<Listed(eventid2, JStr(spam)), Listed(eventid2, JStr(offTopic))>>) }

EventResponses ==
    { [status |-> 200, statusText |-> StatusText(200),
       body |-> Stringify(JObj(<< <<"result", list>> >>))] : list \in EventLists }
    \cup
    { [status |-> 200, statusText |-> StatusText(200),
       body |-> Stringify(JObj(<< <<"error", JStr(spam)>> >>))],
      [status |-> 404, statusText |-> StatusText(404), body |-> Stringify(JObj(<<>>))] }

\* const { data: bannedEvents } = useQuery(...), { data: eventsNeedingModeration }
bannedEvents == ui.controls[<<"EventsList", "banned-events">>].data
eventsNeedingModeration == ui.controls[<<"EventsList", "events-needing-moderation">>].data

\* list?.some(entry => entry.id === id)
SomeId(list, id) ==
    /\ list.t = "array"
    /\ \E i \in 1..Len(list.v) : GetProp(list.v[i], "id") = JStr(id)

\* list?.find(entry => entry.id === id)?.reason
RECURSIVE FindReason(_, _)
FindReason(list, id) ==
    IF list.t # "array" \/ list.v = <<>> THEN undefined
    ELSE IF GetProp(Head(list.v), "id") = JStr(id) THEN GetProp(Head(list.v), "reason")
    ELSE FindReason(JArr(Tail(list.v)), id)

\* Mutant of moderationStatus: the pending list is looked at first.
moderationStatus_pendingFirst(id) ==
    IF SomeId(eventsNeedingModeration, id) THEN "pending"
    ELSE IF SomeId(bannedEvents, id) THEN "banned"
    ELSE "undefined"

\* moderationStatus: isBanned ? 'banned' : needsModeration ? 'pending' : undefined
moderationStatus(id) ==
    IF SomeId(bannedEvents, id) THEN "banned"
    ELSE IF SomeId(eventsNeedingModeration, id) THEN "pending"
    ELSE "undefined"

\* moderationReason
moderationReason(id) ==
    IF SomeId(bannedEvents, id) THEN FindReason(bannedEvents, id)
    ELSE IF SomeId(eventsNeedingModeration, id) THEN FindReason(eventsNeedingModeration, id)
    ELSE undefined

\* The events list mounts: its two list queries start.
mountEventsList(id) ==
    \E method \in QueriesOf("EventsList") :
        /\ Query(id, "EventsList", ConcRelay, method)
        /\ Starts(id)

\* The relay answers a list query.
relayLists(id) == \E response \in EventResponses : Responded(id, response)

StepEvents(id) ==
    \/ mountEventsList(id)
    \/ digestResolve(id)
    \/ signerSigns(id)
    \/ signReject(id)
    \/ relayLists(id)
    \/ fetchReject(id)
    \/ jsonResolve(id)

NextEvents == \E id \in CallIds : StepEvents(id)

SpecEvents == Init /\ [][NextEvents]_vars

(***************************************************************************)
(* The copies of callRelayAPI side by side: the same call made through the *)
(* copy of any two components.                                             *)
(***************************************************************************)
\* callRelayAPI(relayUrl, method, [eventid1]) through the copy of any component.
callCopy(id) ==
    \E site \in Sites, method \in Methods :
        Invoke(id, site, "call", NoForm, ConcRelay, method, ArgList(<<JStr(eventid1)>>))

StepCopies(id) ==
    \/ callCopy(id)
    \/ digestResolve(id)
    \/ signerSigns(id)
    \/ signReject(id)
    \/ relayResponds(id)
    \/ fetchReject(id)
    \/ jsonResolve(id)

NextCopies == \E id \in CallIds : StepCopies(id)

SpecCopies == Init /\ [][NextCopies]_vars

(***************************************************************************)
(* The page: login, the relay address, and what each component lets the    *)
(* operator start in each state of the two.                                *)
(***************************************************************************)
\* The operator logs in, or out (LoginArea).
login ==
    /\ ~ui.user
    /\ ui' = [ui EXCEPT !.user = TRUE]
    /\ UNCHANGED <<nostr, now, calls, signLog, netLog>>

logout ==
    /\ ui.user
    /\ ui' = [ui EXCEPT !.user = FALSE]
    /\ UNCHANGED <<nostr, now, calls, signLog, netLog>>

\* The relay address is cleared or typed: onChange={(e) => setRelayUrl(e.target.value)}
setRelayUrl ==
    \E value \in {<<>>, ConcRelay} \ {ui.relayUrl} :
        /\ ui' = [ui EXCEPT !.relayUrl = value]
        /\ UNCHANGED <<nostr, now, calls, signLog, netLog>>

\* A list query runs when it is enabled: enabled: !!relayUrl && !!user
enabledQuery(id) ==
    \E site \in Sites :
        \E method \in QueriesOf(site) :
            /\ ui.relayUrl # <<>> /\ ui.user
            /\ Query(id, site, ui.relayUrl, method)

\* An information query runs when it is enabled: enabled: !!relayUrl
enabledInfo(id) ==
    /\ ui.relayUrl # <<>>
    /\ \/ InfoInvoke(id, "ConnectionStatus", "checkRelayConnection", ui.relayUrl)
       \/ \E site \in {"RelayStats", "RelayInfo"} :
              InfoInvoke(id, site, "fetchRelayInfo", ui.relayUrl)

\* UserManagement renders its form only for a logged-in user
\* (if (!user) return <Alert>...); the form is then submitted.
renderedAddUser(id) ==
    /\ ui.user
    /\ \E newPubkey \in {<<" ">>, <<" ", "a", "b", " ">>} :
           AddUser(id, ui.relayUrl, newPubkey, <<>>, "ban")

\* RelayManager renders the events list only for a logged-in user; an event
\* is on display only if the events query ran (enabled: !!relayUrl && !!nostr).
renderedModerate(id) ==
    /\ ui.user /\ ui.relayUrl # <<>>
    /\ Invoke(id, "EventsList", "handleModerate", Form(eventid1, <<>>),
              ui.relayUrl, banevent, ArgList(<<JStr(eventid1), undefined>>))

StepLogin(id) ==
    \/ enabledQuery(id)
    \/ enabledInfo(id)
    \/ renderedAddUser(id)
    \/ renderedModerate(id)
    \/ digestResolve(id)
    \/ signerSigns(id)
    \/ relayResponds(id)
    \/ jsonResolve(id)
    \/ infoFetchResolve(id)
    \/ infoFetchReject(id)
    \/ infoJsonResolve(id)

NextLogin == StepLogin(1) \/ login \/ logout \/ setRelayUrl

SpecLogin == Init /\ [][NextLogin]_vars

(***************************************************************************)
(* Event moderation: the two lists load, the operator bans an event, and   *)
(* react-query refetches the lists the ban invalidated.                    *)
(***************************************************************************)
ModerationLists == QueriesOf("EventModeration")
ListControl(method) == <<"EventModeration", QueryKey(method)>>
BanControl == <<"EventModeration", "banEventMutation">>

\* EventModeration mounts: each list query runs once.
mountList(id, method) ==
    /\ ui.controls[ListControl(method)].status = "idle"
    /\ Query(id, "EventModeration", ConcRelay, method)

\* The operator submits the ban form once the lists have settled.
submitBan(id) ==
    /\ \A method \in ModerationLists :
           ui.controls[ListControl(method)].status \in {"success", "error"}
    /\ ui.controls[BanControl].status = "idle"
    /\ Invoke(id, "EventModeration", "handleBanEvent", Form(eventid1, <<>>),
              ConcRelay, banevent, ArgList(<<JStr(eventid1), undefined>>))

\* A refetch that follows the banned-events list only.
refetchList_bannedOnly(id, method) ==
    /\ method = listbannedevents
    /\ ui.controls[ListControl(method)].refetch
    /\ Query(id, "EventModeration", ConcRelay, method)
    /\ Starts(id)

\* invalidateQueries refetches a mounted query it marked: the query function
\* is called again.
refetchList(id, method) ==
    /\ ui.controls[ListControl(method)].refetch
    /\ Query(id, "EventModeration", ConcRelay, method)
    /\ Starts(id)

\* The promise of a finished invocation has been consumed; its slot is free.
release(id) ==
    /\ calls[id].pc = "done"
    /\ calls' = [calls EXCEPT ![id] = NoCall]
    /\ UNCHANGED <<nostr, now, signLog, netLog, ui>>

\* The relay answers a call with a result or refuses it.
relayAnswers(id) ==
    \E response \in {r \in ConcResponses : r.status = 404 \/ r.body = Stringify(JObj(<< <<"result", BannedRecords>> >>))} :
        Responded(id, response)

StepRefetch(id) ==
    \/ \E method \in ModerationLists : mountList(id, method)
    \/ submitBan(id)
    \/ \E method \in ModerationLists : refetchList(id, method)
    \/ release(id)
    \/ digestResolve(id)
    \/ signerSigns(id)
    \/ relayAnswers(id)
    \/ jsonResolve(id)

NextRefetch == \E id \in CallIds : StepRefetch(id)

\* react-query calls the query function of every query it has to refetch,
\* and a settled promise is consumed: both are steps of the page's own event
\* loop.  Nothing is assumed of the signer or the relay.
FairRefetch ==
    /\ \A method \in ModerationLists : WF_vars(\E id \in CallIds : refetchList(id, method))
    /\ \A id \in CallIds : WF_vars(release(id))

SpecRefetch == Init /\ [][NextRefetch]_vars /\ FairRefetch

(***************************************************************************)
(* The events list: the events query and its filter.                       *)
(***************************************************************************)
S_all == <<"a", "l", "l">>
S_custom == <<"c", "u", "s", "t", "o", "m">>
Digits == {"0", "1", "2", "3", "4", "5", "6", "7", "8", "9"}

\* The longest prefix of s made of digits.
RECURSIVE DigitPrefix(_)
DigitPrefix(s) ==
    IF s # <<>> /\ Head(s) \in Digits THEN <<Head(s)>> \o DigitPrefix(Tail(s)) ELSE <<>>

\* parseInt(text): leading white space is skipped, a sign is read, then the
\* digits up to the first character that is not one; NaN when there are none.
NaN == [t |-> "NaN", v |-> 0]
ParseInt(text) ==
    LET s == TrimStart(text)
        signed == s # <<>> /\ Head(s) \in {"-", "+"}
        digits == DigitPrefix(IF signed THEN Tail(s) ELSE s)
    IN  IF digits = <<>> THEN NaN
        ELSE IF signed /\ Head(s) = "-" THEN JNum(0 - StringToNumber(digits))
        ELSE JNum(StringToNumber(digits))

\* text.split(',')
RECURSIVE Split(_, _)
Split(text, acc) ==
    IF text = <<>> THEN <<acc>>
    ELSE IF Head(text) = "," THEN <<acc>> \o Split(Tail(text), <<>>)
    ELSE Split(Tail(text), Append(acc, Head(text)))

\* kindFilter.split(',').map(k => parseInt(k)).filter(k => !isNaN(k))
PresetKinds(kindFilter) ==
    LET parts == Split(kindFilter, <<>>)
        parsed == [i \in 1..Len(parts) |-> ParseInt(parts[i])]
        kept == SelectSeq(parsed, LAMBDA k : k # NaN)
    IN  [i \in 1..Len(kept) |-> kept[i].v]

\* The filter the query function builds from the selection.
Filter(kindFilter, limit, customKind) ==
    LET all == [limit |-> limit, hasKinds |-> FALSE, kinds |-> <<>>]
    IN  IF kindFilter = S_all THEN all
        ELSE IF kindFilter = S_custom /\ customKind # <<>>
        THEN IF ParseInt(customKind) # NaN
             THEN [all EXCEPT !.hasKinds = TRUE, !.kinds = <<ParseInt(customKind).v>>]
             ELSE all
        ELSE IF kindFilter # S_custom
        THEN IF PresetKinds(kindFilter) # <<>>
             THEN [all EXCEPT !.hasKinds = TRUE, !.kinds = PresetKinds(kindFilter)]
             ELSE all
        ELSE all

\* events.sort((a, b) => b.created_at - a.created_at): a stable sort, later
\* events first.
RECURSIVE InsertEvent(_, _)
InsertEvent(sorted, e) ==
    IF sorted = <<>> THEN <<e>>
    ELSE IF Head(sorted).created_at >= e.created_at
    THEN <<Head(sorted)>> \o InsertEvent(Tail(sorted), e)
    ELSE <<e>> \o sorted

RECURSIVE SortEvents(_)
SortEvents(events) ==
    IF events = <<>> THEN <<>>
    ELSE InsertEvent(SortEvents(SubSeq(events, 1, Len(events) - 1)), events[Len(events)])

\* kindOptions, the limits offered, and the texts of the custom kind field
\* (an input of type number).
KindOptions == {S_all, <<"1">>, <<"0">>, <<"3">>, <<"6">>, <<"7">>, S_custom}
Limits == {10, 20, 50, 100}
CustomKinds == {<<>>, <<"7">>, <<"4", "2">>, <<"-", "1">>, <<"1", "e", "3">>}

\* Batches nostr.query may resolve with.
Ev(id, kind, created_at) == [id |-> id, kind |-> kind, created_at |-> created_at]
Batches ==
    { <<>>,
      <<Ev(eventid1, 1, 5), Ev(eventid2, 1, 9)>>,
      <<Ev(eventid1, 1, 5), Ev(eventid2, 7, 9), Ev(eventid3, 1, 5)>>,
      <<Ev(eventid3, 42, 9), Ev(eventid1, 42, 2)>> }

\* The query function of the events query runs for the selection sel, up to
\* its await of nostr.query([filter], { signal }).
RunEventsQuery(sel) ==
    /\ ui' = [ui EXCEPT !.events =
                  [sel EXCEPT !.status = "fetching",
                              !.filter = Filter(sel.kindFilter, sel.limit, sel.customKind),
                              !.data = <<>>]]
    /\ UNCHANGED <<nostr, now, calls, signLog, netLog>>

\* The component mounts, or the query is fetched again (Refresh, the 30 s
\* interval).
refetch ==
    /\ ui.events.status # "fetching"
    /\ RunEventsQuery(ui.events)

\* Select onValueChange={setKindFilter}: the query key changes.
setKindFilter ==
    \E value \in KindOptions \ {ui.events.kindFilter} :
        RunEventsQuery([ui.events EXCEPT !.kindFilter = value])

\* The custom kind field, rendered while 'Custom Kind' is selected.
setCustomKind ==
    \E value \in CustomKinds \ {ui.events.customKind} :
        /\ ui.events.kindFilter = S_custom
        /\ RunEventsQuery([ui.events EXCEPT !.customKind = value])

\* Select onValueChange={(value) => setLimit(parseInt(value))}
setLimit ==
    \E value \in Limits \ {ui.events.limit} :
        RunEventsQuery([ui.events EXCEPT !.limit = ParseInt(NumberToString(value)).v])

\* nostr.query resolves: the batch is sorted and shown.
queryResolve ==
    \E batch \in Batches :
        /\ ui.events.status = "fetching"
        /\ ui' = [ui EXCEPT !.events.status = "success",
                            !.events.data = SortEvents(batch)]
        /\ UNCHANGED <<nostr, now, calls, signLog, netLog>>

\* nostr.query rejects, or the 10 s signal times out.
queryReject ==
    /\ ui.events.status = "fetching"
    /\ ui' = [ui EXCEPT !.events.status = "error"]
    /\ UNCHANGED <<nostr, now, calls, signLog, netLog>>

NextFilter ==
    \/ refetch
    \/ setKindFilter
    \/ setCustomKind
    \/ setLimit
    \/ queryResolve
    \/ queryReject

SpecFilter == Init /\ [][NextFilter]_vars

(***************************************************************************)
(* Properties.                                                             *)
(***************************************************************************)
\* The invocations of callRelayAPI.
RpcCalls == {id \in CallIds : calls[id].entry = "callRelayAPI"}

\* The network requests a call has issued.
RequestsOf(id) == SelectSeq(netLog, LAMBDA r : r.call = id)

\* The call has received a response with a status below 300.
Answered2xx(c) == c.response.status # 0 /\ c.response.status < 300

\* C1: if window.nostr is absent when callRelayAPI is invoked, then whatever
\* the method and params, the call fails with 'NIP-07 extension not found',
\* the failure reaches the caller, and the call issues no network request.
C1_MissingSignerFailure ==
    \A id \in RpcCalls :
        calls[id].exit = "missing signer" =>
            /\ calls[id].outcome.kind = "throw"
            /\ calls[id].outcome.error.message = S_extensionNotFound
            /\ RequestsOf(id) = <<>>

\* C2: a call answered with an HTTP status of 300 or more ends in a failure
\* whose message carries the status code, whatever the body holds; the body
\* is never returned as a result.
C2_HttpStatusFailure ==
    \A id \in RpcCalls :
        (calls[id].pc = "done" /\ calls[id].response.status >= 300) =>
            /\ calls[id].outcome.kind = "throw"
            /\ Contains(calls[id].outcome.error.message,
                        NumberToString(calls[id].response.status))

\* C3: a call answered with a status below 300 and a body holding a top-level
\* 'error' string ends in a failure whose message is that string, and returns
\* no result; for every string, the empty string included.
C3_ErrorFieldFailure ==
    \A id \in RpcCalls :
        LET c == calls[id]
            body == JSONparse(c.response.body)
        IN  (c.pc = "done" /\ Answered2xx(c) /\ body.ok /\ HasProp(body.val, "error")) =>
                /\ c.outcome.kind = "throw"
                /\ c.outcome.error.message = GetProp(body.val, "error").v

\* The structured values the relay answers with in a body {"result": value}.
ResultValues == {BannedRecords, TwoRecords}

\* C4: a call answered with a status below 300 and a body without an 'error'
\* field hands its caller exactly the body's 'result' field: the value the
\* relay serialized, element for element and field for field (undefined when
\* the body has no 'result' field).
C4_ResultReturnedUnchanged ==
    \A id \in RpcCalls :
        LET c == calls[id]
        IN  (c.pc = "done" /\ Answered2xx(c)) =>
                /\ \A value \in ResultValues :
                      c.response.body = Stringify(JObj(<< <<"result", value>> >>)) =>
                          c.outcome = Return(value)
                /\ c.response.body = Stringify(JObj(<<>>)) => c.outcome = Return(undefined)

\* C4 witness: the listbannedpubkeys scenario has returned its one record,
\* with pubkey "abc123" and reason "spam".
C4_Witness ==
    \E id \in RpcCalls :
        /\ calls[id].pc = "done"
        /\ calls[id].method = listbannedpubkeys
        /\ ~calls[id].args.given
        /\ calls[id].response.body = Stringify(JObj(<< <<"result", BannedRecords>> >>))
        /\ calls[id].outcome.kind = "return"
        /\ Len(calls[id].outcome.value.v) = 1
        /\ GetProp(calls[id].outcome.value.v[1], "pubkey") = JStr(abc123)
        /\ GetProp(calls[id].outcome.value.v[1], "reason") = JStr(spam)

\* What a JSON parser makes of a parameter list: an omitted entry reads null.
NullForOmitted(params) ==
    [i \in 1..Len(params) |-> IF params[i].t = "undefined" THEN JNull ELSE params[i]]

\* C5 as stated: the request body deserializes back to exactly {method,
\* params}, every parameter with its original value at its original position,
\* omitted entries included.
C5_ExactRoundTrip ==
    \A id \in RpcCalls :
        JSONparse(calls[id].payload.text).val
            = Envelope(calls[id].method, DefaultParams(calls[id].args))

\* C5 amended: the request body deserializes to {method, params} with the
\* same method, the same number of parameters and the same order, every
\* string and number with its value, and every omitted entry as null at its
\* position; banevent ["eventid1", "off-topic"] is written as
\* ["eventid1","off-topic"].
C5_RoundTripNullForOmitted ==
    \A id \in RpcCalls :
        LET c == calls[id]
            back == JSONparse(c.payload.text)
        IN  /\ back.ok
            /\ back.val = Envelope(c.method, NullForOmitted(DefaultParams(c.args)))
            /\ Len(GetProp(back.val, "params").v) = Len(DefaultParams(c.args))
            /\ (c.method = banevent /\ c.args = ArgList(<<JStr(eventid1), JStr(offTopic)>>)) =>
                   SubSeq(c.payload.text, 8, 12)
                       = <<TPunct("["), TStr(eventid1), TPunct(","), TStr(offTopic), TPunct("]")>>

\* C5 witness: a request has been sent for a parameter list whose first entry
\* is omitted.
C5_Witness ==
    \E id \in RpcCalls :
        /\ Len(DefaultParams(calls[id].args)) = 2
        /\ DefaultParams(calls[id].args)[1] = undefined
        /\ RequestsOf(id) # <<>>

\* The handlers that submit a form with a typed reason.
ReasonForms == {"handleAddUser", "handleBanEvent", "handleBlockIp", "handleModerate"}

C7_PayloadTagIffBody ==
    \A i \in 1..Len(signLog) :
        LET tags == signLog[i].event.tags
            payload == calls[signLog[i].call].payload
        IN  /\ (Len(tags) = 3) <=> payload.given
            /\ payload.given => tags[3] = <<"payload", HashHex(Sha256(payload.text))>>

\* The signed record a request's Authorization header carries.
AttestationOf(request) == request.authorization[2].base64.json

\* C8: the body of every request issued by the RPC caller is the string
\* whose digest the signed attestation of that request carries.
C8_SentBodyIsHashedBody ==
    \A i \in 1..Len(netLog) :
        LET tags == AttestationOf(netLog[i]).tags
        IN  netLog[i].call \in RpcCalls =>
            /\ Len(tags) = 3
            /\ tags[3] = <<"payload", HashHex(Sha256(netLog[i].body))>>
            /\ \E j \in 1..Len(signLog) :
                  /\ signLog[j].call = netLog[i].call
                  /\ signLog[j].event.tags = tags

\* C8 witness: a request with a body has been issued.
C8_Witness ==
    \E i \in 1..Len(netLog) :
        /\ netLog[i].body = Payload(banevent, ArgList(<<JStr(eventid1), JStr(offTopic)>>))
        /\ calls[netLog[i].call].pc = "fetching"

\* C9: every attestation handed to the signer has kind 27235, empty content
\* and a tag list starting with ["u", url], ["method", method], followed by
\* at most one payload tag; the value the builder returns is 'Nostr '
\* followed by the base64 of the JSON of the record the signer returned.
C9_AttestationShape ==
    /\ \A i \in 1..Len(signLog) :
          LET event == signLog[i].event
              c == calls[signLog[i].call]
          IN  /\ event.kind = 27235
              /\ event.content = <<>>
              /\ Len(event.tags) \in {2, 3}
              /\ event.tags[1] = <<"u", c.httpUrl>>
              /\ event.tags[2] = <<"method", c.authMethod>>
              /\ Len(event.tags) = 3 => event.tags[3][1] = "payload"
    /\ \A id \in CallIds :
          calls[id].exit = "header" =>
              /\ calls[id].authHeader[1] = S_Nostr
              /\ calls[id].authHeader[2] = Btoa(JSONofEvent(calls[id].signed))
              /\ \E pk \in SignerKeys, j \in 1..Len(signLog) :
                    /\ signLog[j].call = id
                    /\ calls[id].signed = SignedBy(signLog[j].event, pk)

\* C9 witness: the builder, used alone without a body, has returned a header.
C9_Witness ==
    \E id \in CallIds :
        /\ calls[id].exit = "header"
        /\ ~calls[id].payload.given
        /\ Len(calls[id].signed.tags) = 2

\* The steps of a call that runs to its return.
LinearSteps == <<"build", "digest", "sign", "signed", "send", "parse", "return">>

\* steps is a run of the linear sequence: a prefix of it, or a proper prefix
\* followed by the failure.
IsLinearRun(steps) ==
    \/ \E n \in 0..Len(LinearSteps) : steps = SubSeq(LinearSteps, 1, n)
    \/ \E n \in 0..(Len(LinearSteps) - 1) : steps = Append(SubSeq(LinearSteps, 1, n), "fail")

\* The exits of callRelayAPI at which a failure is raised.
FailureExits ==
    {"missing signer", "digest", "signer", "encoding", "transport", "status", "body",
     "null body", "error field"}

\* Each step of a call happened at most once, in order, and its request was
\* issued after the signer returned the attestation it carries.
LinearCall(id) ==
    /\ IsLinearRun(calls[id].steps)
    /\ Len(RequestsOf(id)) <= 1
    /\ calls[id].pc \in {"idle", "hashing", "signing"} => RequestsOf(id) = <<>>
    /\ calls[id].pc \in {"fetching", "parsing"} => Len(RequestsOf(id)) = 1
    /\ \A i \in 1..Len(RequestsOf(id)) :
          /\ AttestationOf(RequestsOf(id)[i]) = calls[id].signed
          /\ calls[id].signed.pubkey \in SignerKeys

\* C10 as stated: a call is one linear sequence, and a call that ends, ends
\* at the success exit or at one of two failure exits: missing signer, or a
\* non-success response (status or error field).
C10_ThreeExits ==
    \A id \in RpcCalls :
        /\ LinearCall(id)
        /\ calls[id].pc = "done" =>
              calls[id].exit \in {"missing signer", "status", "error field", "result"}

\* C10 amended: a call is one linear sequence (build, digest, sign, send,
\* parse, then return or fail), no step repeated or skipped, the request
\* issued only after signing; a call that ends, ends at the success exit with
\* the result, or at a failure exit (missing signer, digest, signer
\* rejection, header encoding, fetch rejection, non-success status,
\* unparsable body, null body, error field), where it fails, except that the
\* events-list copy returns [] there for a method starting with 'list'.
C10_LinearWithExits ==
    \A id \in RpcCalls :
        LET c == calls[id]
        IN  /\ LinearCall(id)
            /\ c.pc = "done" =>
                  /\ c.exit \in FailureExits \cup {"result"}
                  /\ c.exit = "result" =>
                        c.outcome.kind = "return" /\ c.steps = LinearSteps
                  /\ c.exit \in FailureExits =>
                        /\ c.steps[Len(c.steps)] = "fail"
                        /\ c.outcome =
                              IF c.site = "EventsList" /\ StartsWith(c.method, S_list)
                              THEN Return(JArr(<<>>))
                              ELSE Throw(c.outcome.error)
                        /\ c.outcome.kind = "throw" => c.outcome.error # NoError

\* C10 witness: one call has ended at the transport failure exit after its
\* request was sent, and it failed.
C10_Witness ==
    \E id \in RpcCalls :
        /\ calls[id].pc = "done"
        /\ calls[id].exit = "transport"
        /\ calls[id].outcome.kind = "throw"
        /\ Len(RequestsOf(id)) = 1

\* The sign operations a call has started.
SignsOf(id) == SelectSeq(signLog, LAMBDA e : e.call = id)

\* The exits of callRelayAPI reached before the signer is asked, and before
\* the request is sent.
ExitsBeforeSign == {"missing signer", "digest"}
ExitsBeforeSend == ExitsBeforeSign \cup {"signer", "encoding"}

\* The requests issued by invocations of callRelayAPI, in the order sent.
RpcRequests == SelectSeq(netLog, LAMBDA r : r.call \in RpcCalls)

\* C11: one invocation of callRelayAPI starts at most one sign operation and
\* issues at most one network request, whatever its outcome: a call that
\* has ended asked the signer once unless it failed before that, and sent
\* one request unless it failed before sending; every request issued belongs
\* to one invocation and carries the body of that invocation alone, and there
\* are as many requests as invocations that reached the sending step.
C11_AtMostOneSignOneRequest ==
    /\ \A id \in RpcCalls :
          LET c == calls[id]
          IN  /\ Len(SignsOf(id)) <= 1
              /\ Len(RequestsOf(id)) <= 1
              /\ c.pc = "done" =>
                    /\ Len(SignsOf(id)) = IF c.exit \in ExitsBeforeSign THEN 0 ELSE 1
                    /\ Len(RequestsOf(id)) = IF c.exit \in ExitsBeforeSend THEN 0 ELSE 1
    /\ \A i \in 1..Len(RpcRequests) :
          RpcRequests[i].body =
              Payload(calls[RpcRequests[i].call].method, calls[RpcRequests[i].call].args)
    /\ Len(RpcRequests) = Cardinality({id \in RpcCalls : calls[id].pc \in {"fetching", "parsing"}
                                     \/ (calls[id].pc = "done" /\ calls[id].exit \notin ExitsBeforeSend)})

\* C11 witness: two invocations have ended, one after a non-success status
\* and one with a result; each was signed once and sent once.
C11_Witness ==
    \E i, j \in RpcCalls :
        /\ calls[i].pc = "done" /\ calls[i].exit = "status"
        /\ calls[j].pc = "done" /\ calls[j].exit = "result"
        /\ Len(signLog) = 2
        /\ Len(netLog) = 2

\* C12: every request of the RPC caller carries the attestation built and
\* signed in its own call: the record in its Authorization header is what
\* the signer returned for the one sign operation of that call, over the
\* event built in that call (its URL, its body digest, a timestamp read in
\* that call), and no sign operation serves two requests, also when two
\* calls have the same method and params.
C12_FreshAttestationPerRequest ==
    \A i \in 1..Len(RpcRequests) :
        LET r == RpcRequests[i]
            c == calls[r.call]
            att == AttestationOf(r)
        IN  /\ Len(SignsOf(r.call)) = 1
            /\ att = SignedBy(SignsOf(r.call)[1].event, att.pubkey)
            /\ att = c.signed
            /\ SignsOf(r.call)[1].event =
                   PushPayloadTag(NewEvent(HttpUrl(c.relayUrl), "POST", att.created_at),
                                  Given(r.body))
            /\ att.created_at \in 0..now
            /\ \A j \in 1..Len(RpcRequests) : j # i => RpcRequests[j].call # r.call

\* C12 witness: two calls with the same method and params have each sent
\* their request, each after its own sign operation.
C12_Witness ==
    \E i, j \in RpcCalls :
        /\ i # j
        /\ calls[i].method = calls[j].method /\ calls[i].args = calls[j].args
        /\ Len(RequestsOf(i)) = 1 /\ Len(RequestsOf(j)) = 1
        /\ RequestsOf(i)[1].body = RequestsOf(j)[1].body
        /\ Len(SignsOf(i)) = 1 /\ Len(SignsOf(j)) = 1

\* C13: at every moment at most one sign operation is outstanding on the
\* signer: no call has asked window.nostr.signEvent while the signEvent of
\* another call has not yet settled.
C13_OneOutstandingSign ==
    Cardinality({id \in CallIds : calls[id].pc = "signing"}) <= 1

\* The request a call sends when it runs alone: a function of its own
\* arguments and of what the signer returned to it.
OwnRequest(id, c) ==
    Request(id, HttpUrl(c.relayUrl), AuthHeaderValue(c.signed), Payload(c.method, c.args))

\* The outcome of a call that ended at `exit`, as a function of its own
\* arguments and its own response.
OwnOutcome(c) ==
    LET result == JSONparse(c.response.body).val
    IN  CASE c.exit = "result" -> {Return(GetProp(result, "result"))}
          [] c.exit = "error field" ->
                 {Leave(c.site, c.method, Err("Error", StringOf(GetProp(result, "error"))))}
          [] c.exit = "status" -> {Leave(c.site, c.method, HttpError(c.response))}
          [] c.exit = "missing signer" ->
                 {Leave(c.site, c.method, Err("Error", S_extensionNotFound))}
          [] OTHER -> {Leave(c.site, c.method, EnvError(name)) :
                          name \in {"TypeError", "Error", "SyntaxError", "InvalidCharacterError"}}

\* C14: concurrent calls run independently and are not coalesced.  In every
\* step exactly one call advances and every other call, pending or ended,
\* keeps its state, its request and its outcome; the only request a step
\* can add is the own request of the call that advances, carrying its own
\* signed attestation; and the outcome of a call that ends is determined by
\* its own arguments and its own response.
C14_CallsIndependent ==
    [][\A i \in CallIds :
          calls'[i] # calls[i] =>
              /\ \A j \in CallIds \ {i} :
                    /\ calls'[j] = calls[j]
                    /\ RequestsOf(j)' = RequestsOf(j)
              /\ \/ netLog' = netLog
                 \/ /\ netLog' = Append(netLog, OwnRequest(i, calls'[i]))
                    /\ AttestationOf(OwnRequest(i, calls'[i])).tags[3] =
                          <<"payload", HashHex(Sha256(Payload(calls'[i].method, calls'[i].args)))>>
              /\ calls'[i].pc = "done" => calls'[i].outcome \in OwnOutcome(calls'[i])]_vars

\* C14 witness: two calls for different methods were in flight together;
\* one has failed, the other has returned its own result.
C14_Witness ==
    \E i, j \in RpcCalls :
        /\ calls[i].method # calls[j].method
        /\ calls[i].pc = "done" /\ calls[i].outcome.kind = "throw"
        /\ calls[j].pc = "done" /\ calls[j].outcome = Return(BannedRecords)
        /\ Len(netLog) = 2
        /\ netLog[1].call = j /\ netLog[2].call = i
        /\ calls[i].steps[Len(calls[i].steps)] = "fail"

\* The transform the scheme rewriting is claimed to be: wss:// becomes
\* https://, ws:// becomes http://, at the start of the address only.
S_http == <<"h", "t", "t", "p", ":", "/", "/">>
SchemeEquivalent(relayUrl) ==
    IF StartsWith(relayUrl, S_wss)
    THEN S_https \o SubSeq(relayUrl, Len(S_wss) + 1, Len(relayUrl))
    ELSE IF StartsWith(relayUrl, S_ws)
    THEN S_http \o SubSeq(relayUrl, Len(S_ws) + 1, Len(relayUrl))
    ELSE relayUrl

\* C15: the address every call contacts is the relay address with a leading
\* wss:// replaced by https:// and a leading ws:// replaced by http://; host,
\* port and path are kept, and an address that does not start with a
\* WebSocket scheme is kept whole.
C15_SchemeRewrite ==
    \A id \in CallIds :
        calls[id].entry \in {"callRelayAPI", "checkRelayConnection", "fetchRelayInfo"} =>
            calls[id].httpUrl = SchemeEquivalent(calls[id].relayUrl)

\* The failure of call c is shown to the operator: the destructive toast of
\* onError carrying the message, or the rendered error of the query.
FailureShown(c) ==
    LET k == ControlOf(c)
    IN  /\ ui.controls[k].status = "error"
        /\ ui.controls[k].error = c.outcome.error
        /\ IF IsMutation(k)
           THEN \E n \in 1..Len(ui.toasts) :
                    /\ ui.toasts[n].variant = "destructive"
                    /\ ui.toasts[n].description = c.outcome.error.message
           ELSE RendersQueryError(c.site)

\* C16: every administrative call made by a query or a mutation that ends at
\* a failure exit (missing signer, transport failure, non-success status,
\* error field, ...) ends as a failure, never as a result, is shown to the
\* operator with its message, and was sent at most once, for list methods
\* as for mutating methods, in every component.
C16_FailuresSurface ==
    \A id \in RpcCalls :
        LET c == calls[id]
        IN  c.pc = "done" /\ c.exit \in FailureExits /\ ControlOf(c) # NoControl =>
                /\ c.outcome.kind = "throw"
                /\ FailureShown(c)
                /\ Len(RequestsOf(id)) <= 1 /\ Len(SignsOf(id)) <= 1

\* Call id ends as a failure in this step.
FailsNow(id) ==
    /\ calls[id].pc # "done"
    /\ calls'[id].pc = "done"
    /\ calls'[id].outcome.kind = "throw"

\* C17: when a call ends as a failure, that step changes the state of no
\* control but the one that started the call (pending / error state, loaded
\* data, staleness), no form of another component and no other call in
\* progress; the failed control is left not pending, so every control that
\* could be triggered before can be triggered after.
C17_FailureScopedToControl ==
    [][\A id \in CallIds :
          FailsNow(id) =>
              LET k == ControlOf(calls'[id])
              IN  /\ \A j \in ControlIds \ {k} : ui'.controls[j] = ui.controls[j]
                  /\ \A site \in FormSites \ {calls'[id].site} : ui'.forms[site] = ui.forms[site]
                  /\ \A other \in CallIds \ {id} : calls'[other] = calls[other]
                  /\ k # NoControl => ui'.controls[k].status = "error"]_vars

\* A list query has loaded its data, the add-user mutation has failed, and
\* the list still holds its data while the form is open as typed.
C17_Witness ==
    \E i, j \in CallIds :
        /\ calls[i].pc = "done" /\ calls[i].outcome.kind = "return"
        /\ ~IsMutation(ControlOf(calls[i]))
        /\ ui.controls[ControlOf(calls[i])].status = "success"
        /\ ui.controls[ControlOf(calls[i])].data = calls[i].outcome.value
        /\ calls[j].pc = "done" /\ calls[j].outcome.kind = "throw"
        /\ IsMutation(ControlOf(calls[j]))
        /\ ui.controls[ControlOf(calls[j])].status = "error"
        /\ ui.forms[calls[j].site].open

\* The fetches of the relay information document.
InfoCalls == {id \in CallIds : calls[id].entry \in {"checkRelayConnection", "fetchRelayInfo"}}

\* The outcome that tells the operator the relay lacks the access-control
\* headers, and the one that tells of a network failure: the status objects
\* of checkRelayConnection, the errors of fetchRelayInfo.
CorsOutcome(site) ==
    IF site = "ConnectionStatus"
    THEN Return(StatusObject(S_cors_error, S_CORSnotSupported))
    ELSE Throw(Err("Error", S_CORSerrorLong))

NetworkOutcome(site) ==
    IF site = "ConnectionStatus"
    THEN Return(StatusObject(S_network_error, S_NetworkError))
    ELSE Throw(Err("Error", S_NetworkErrorLong))

\* C18: a fetch of the information document that the browser rejects for a
\* cross-origin reason ends with the cross-origin outcome and not with the
\* network-error outcome; one rejected because the relay is unreachable ends
\* with the network-error outcome; the two outcomes differ.
C18_CorsDistinguished ==
    \A id \in InfoCalls :
        LET c == calls[id]
        IN  c.pc = "done" /\ c.exit = "transport" =>
                /\ CorsOutcome(c.site) # NetworkOutcome(c.site)
                /\ c.cause = "cors" =>
                       c.outcome = CorsOutcome(c.site) /\ c.outcome # NetworkOutcome(c.site)
                /\ c.cause = "unreachable" => c.outcome = NetworkOutcome(c.site)

\* C19: a fetch of the relay information document issues exactly one
\* request, a GET whose only header is Accept: application/nostr+json, with
\* no Authorization header and no body; it never asks the signer for a
\* signature and never ends for want of a signer, so it ends by the relay's
\* answer alone whether or not window.nostr is present.
C19_InfoFetchUnauthenticated ==
    \A id \in InfoCalls :
        LET c == calls[id]
            sent == RequestsOf(id)
        IN  /\ Len(sent) = 1
            /\ sent[1].method = "GET"
            /\ sent[1].url = HttpUrl(c.relayUrl)
            /\ sent[1].headers = {"Accept"}
            /\ sent[1].accept = "application/nostr+json"
            /\ sent[1].authorization = NoHeader
            /\ ~sent[1].hasBody
            /\ Len(SignsOf(id)) = 0
            /\ c.pc \in {"infoFetching", "infoParsing", "done"}
            /\ c.pc = "done" => c.exit \in {"transport", "status", "body", "result"}
            /\ c.pc = "done" /\ c.exit = "result" =>
                   c.outcome = InfoData(c.site, JSONparse(c.response.body).val)

\* With no signer in the page, the document was fetched and returned.
C19_Witness ==
    /\ ~nostr
    /\ \E id \in InfoCalls :
           /\ calls[id].pc = "done" /\ calls[id].exit = "result"
           /\ calls[id].outcome.kind = "return"
           /\ Len(RequestsOf(id)) = 1

\* C20: a call whose caller aborted it while the request was in flight ends
\* as a failure carrying the cancellation condition (AbortError), and the
\* request it sent is neither repeated nor followed by another request.
C20_AbortedCallFails ==
    \A id \in RpcCalls :
        LET c == calls[id]
        IN  c.aborted =>
                /\ Len(RequestsOf(id)) = 1
                /\ Len(netLog) = 1
                /\ c.pc = "done" =>
                       /\ c.outcome.kind = "throw"
                       /\ c.outcome.error.name = "AbortError"

\* C21: the signer is only ever handed an unsigned attestation (kind 27235,
\* content, tags, created_at, and no id, key or signature), and what it
\* returns leaves the client only as the signed record inside the
\* Authorization header of the call's own request: the address and the body
\* of every request are computed from the caller's arguments alone, and the
\* information requests carry nothing of the signer.
C21_OnlySignedRecordLeaves ==
    /\ \A n \in 1..Len(signLog) :
           /\ DOMAIN signLog[n] = {"call", "event"}
           /\ DOMAIN signLog[n].event = {"kind", "content", "tags", "created_at"}
           /\ signLog[n].event.kind = 27235
    /\ \A n \in 1..Len(netLog) :
           LET r == netLog[n]
               c == calls[r.call]
           IN  /\ r.url = HttpUrl(c.relayUrl)
               /\ IF r.call \in RpcCalls
                  THEN /\ r.body = Payload(c.method, c.args)
                       /\ r.headers = {"Content-Type", "Authorization"}
                       /\ \E pk \in SignerKeys, m \in 1..Len(signLog) :
                              /\ signLog[m].call = r.call
                              /\ r.authorization =
                                     <<S_Nostr, Btoa(JSONofEvent(SignedBy(signLog[m].event, pk)))>>
                  ELSE /\ ~r.hasBody
                       /\ r.headers = {"Accept"}
                       /\ r.authorization = NoHeader

\* A call has been signed with the second key of the extension and sent, and
\* the relay's result returned.
C21_Witness ==
    \E id \in RpcCalls :
        /\ calls[id].pc = "done" /\ calls[id].exit = "result"
        /\ Len(SignsOf(id)) = 1 /\ Len(RequestsOf(id)) = 1
        /\ calls[id].signed.pubkey = "npubB"
        /\ RequestsOf(id)[1].authorization = AuthHeaderValue(calls[id].signed)

\* A 64-character lower-case hexadecimal identifier.
HexDigits == {"0", "1", "2", "3", "4", "5", "6", "7", "8", "9", "a", "b", "c", "d", "e", "f"}
IsHex64(text) == Len(text) = 64 /\ \A i \in 1..Len(text) : text[i] \in HexDigits

\* The submissions of the add forms, and those whose identifier is malformed:
\* blank, or (for a pubkey or an event id) not 64 hexadecimal characters.
FormOrigins == {"handleAddUser", "handleBanEvent", "handleBlockIp"}
Malformed(c) ==
    \/ Trim(c.form.ident) = <<>>
    \/ c.origin \in {"handleAddUser", "handleBanEvent"} /\ ~IsHex64(Trim(c.form.ident))

\* C22: a form submitted with a malformed identifier is refused before any
\* call: the signer is not asked, no request is sent, and the fields and the
\* dialog stay as they were.
C22_MalformedInputRefused ==
    \A id \in CallIds :
        LET c == calls[id]
        IN  c.origin \in FormOrigins /\ Malformed(c) =>
                /\ c.exit = "invalid input"
                /\ Len(SignsOf(id)) = 0
                /\ Len(RequestsOf(id)) = 0
                /\ ui.forms[c.site] = Typed(c.form)

\* The ids a loaded list holds, and the reasons it gives for an id.
IdsIn(list) ==
    IF list.t # "array" THEN {}
    ELSE {GetProp(list.v[i], "id") : i \in 1..Len(list.v)}
ReasonsIn(list, id) ==
    {GetProp(list.v[i], "reason") : i \in {j \in 1..Len(list.v) : GetProp(list.v[j], "id") = JStr(id)}}

\* C23: a displayed event is marked banned exactly when its id is in the
\* banned-events list, pending exactly when its id is in the
\* needing-moderation list and not in the banned list, and not marked
\* otherwise; for an id in both lists the mark is banned and the reason is
\* one the banned list gives for it.
C23_StatusFollowsLists ==
    \A id \in EventIds :
        LET banned == JStr(id) \in IdsIn(bannedEvents)
            pending == JStr(id) \in IdsIn(eventsNeedingModeration)
        IN  /\ moderationStatus(id) = "banned" <=> banned
            /\ moderationStatus(id) = "pending" <=> (pending /\ ~banned)
            /\ moderationStatus(id) = "undefined" <=> (~pending /\ ~banned)
            /\ banned => moderationReason(id) \in ReasonsIn(bannedEvents, id)
            /\ pending /\ ~banned =>
                   moderationReason(id) \in ReasonsIn(eventsNeedingModeration, id)

\* Both lists are loaded from the relay; one event is in both with different
\* reasons, one is pending only, and one is in neither.
C23_Witness ==
    /\ \A id \in CallIds : calls[id].site = "EventsList" /\ calls[id].exit = "result"
    /\ \E a, b, c \in EventIds :
           /\ JStr(a) \in IdsIn(bannedEvents) \cap IdsIn(eventsNeedingModeration)
           /\ FindReason(bannedEvents, a) # FindReason(eventsNeedingModeration, a)
           /\ moderationStatus(a) = "banned"
           /\ moderationStatus(b) = "pending"
           /\ moderationStatus(c) = "undefined"

\* The kind each preset option stands for.
PresetKind(kindFilter) ==
    CASE kindFilter = <<"1">> -> 1 [] kindFilter = <<"0">> -> 0 [] kindFilter = <<"3">> -> 3
      [] kindFilter = <<"6">> -> 6 [] kindFilter = <<"7">> -> 7 [] OTHER -> -1

\* The number a text of the form [-]digits[e digits] denotes.
RECURSIVE Pow10(_)
Pow10(n) == IF n = 0 THEN 1 ELSE 10 * Pow10(n - 1)
IsNumeric(text) ==
    LET body == IF text # <<>> /\ Head(text) = "-" THEN Tail(text) ELSE text
        mant == DigitPrefix(body)
        rest == SubSeq(body, Len(mant) + 1, Len(body))
    IN  /\ mant # <<>>
        /\ rest = <<>> \/ (Head(rest) = "e" /\ Len(rest) > 1 /\ DigitPrefix(Tail(rest)) = Tail(rest))
ValueOf(text) ==
    LET neg == Head(text) = "-"
        body == IF neg THEN Tail(text) ELSE text
        mant == DigitPrefix(body)
        rest == SubSeq(body, Len(mant) + 1, Len(body))
        abs == StringToNumber(mant) * (IF rest = <<>> THEN 1 ELSE Pow10(StringToNumber(Tail(rest))))
    IN  IF neg THEN 0 - abs ELSE abs

\* C24: the filter passed to the events query carries the chosen limit; it
\* has no kinds with 'All Events', exactly [k] with the preset kind k, and
\* exactly [n] with 'Custom Kind' and an entry denoting the number n; the
\* events shown are in non-increasing order of created_at.
C24_FilterFollowsSelection ==
    LET e == ui.events
    IN  e.status # "idle" =>
            /\ e.filter.limit = e.limit
            /\ e.kindFilter = S_all => ~e.filter.hasKinds
            /\ e.kindFilter \notin {S_all, S_custom} =>
                   e.filter.hasKinds /\ e.filter.kinds = <<PresetKind(e.kindFilter)>>
            /\ e.kindFilter = S_custom /\ IsNumeric(e.customKind) =>
                   e.filter.hasKinds /\ e.filter.kinds = <<ValueOf(e.customKind)>>
            /\ \A i \in 1..(Len(e.data) - 1) : e.data[i].created_at >= e.data[i + 1].created_at

\* The request a call has issued, without the mark of the issuing call.
Wire(r) ==
    [url |-> r.url, method |-> r.method, headers |-> r.headers,
     contentType |-> r.contentType, authorization |-> r.authorization, body |-> r.body]
WiresOf(id) == [n \in 1..Len(RequestsOf(id)) |-> Wire(RequestsOf(id)[n])]

\* Two finished calls were given the same arguments and met the same
\* behaviour of the signer and of the relay.
SameRun(c, d) ==
    /\ c.pc = "done" /\ d.pc = "done"
    /\ c.relayUrl = d.relayUrl /\ c.method = d.method /\ c.args = d.args
    /\ c.event = d.event /\ c.signed = d.signed
    /\ c.response = d.response /\ c.exit = d.exit

\* C25: the copies of callRelayAPI are interchangeable: two calls with the
\* same address, method and params that meet the same signer behaviour and
\* the same response issue the same request and end with the same outcome,
\* whichever components' copies made them.
C25_CopiesAgree ==
    \A i, j \in RpcCalls :
        SameRun(calls[i], calls[j]) =>
            /\ WiresOf(i) = WiresOf(j)
            /\ calls[i].outcome = calls[j].outcome

\* The failure raised at each failure exit of a call.
RaisedAt(c) ==
    CASE c.exit = "missing signer" -> Err("Error", S_extensionNotFound)
      [] c.exit = "status" -> HttpError(c.response)
      [] c.exit = "error field" ->
             Err("Error", StringOf(GetProp(JSONparse(c.response.body).val, "error")))
      [] c.exit = "signer" -> EnvError("Error")
      [] c.exit = "body" -> EnvError("SyntaxError")
      [] c.exit = "encoding" -> EnvError("InvalidCharacterError")
      [] OTHER -> EnvError("TypeError")

\* C26: in the events list, a call of a method whose name starts with
\* 'list' that meets any failure (no signer, a signer rejection, a transport
\* failure, a non-success status, an unparsable body, an error field) ends
\* by returning the empty list; a call of any other method ends by throwing
\* that same failure.
C26_EventsListSwallowsListFailures ==
    \A id \in RpcCalls :
        LET c == calls[id]
        IN  c.site = "EventsList" /\ c.pc = "done" /\ c.exit \in FailureExits =>
                IF StartsWith(c.method, S_list)
                THEN c.outcome = Return(JArr(<<>>))
                ELSE c.outcome = Throw(RaisedAt(c))

\* A list query of the events list met a body that is not JSON and returned
\* the empty list, which the query holds as its data.
C26_Witness ==
    \E id \in RpcCalls :
        /\ calls[id].site = "EventsList" /\ calls[id].origin = "useQuery"
        /\ calls[id].pc = "done" /\ calls[id].exit = "body"
        /\ calls[id].outcome = Return(JArr(<<>>))
        /\ ui.controls[ControlOf(calls[id])].status = "success"
        /\ ui.controls[ControlOf(calls[id])].data = JArr(<<>>)

\* The event inside an Authorization header value.
Attested(authorization) == authorization[2].base64.json

\* C27: in every request of the RPC caller the attestation's first tag is
\* "u" with exactly the address the request is sent to, its second tag is
\* "method" with the request's HTTP method, and that method is POST.
C27_AttestationBoundToRequest ==
    \A n \in 1..Len(netLog) :
        LET r == netLog[n]
            tags == Attested(r.authorization).tags
        IN  r.call \in RpcCalls =>
                /\ r.method = "POST"
                /\ Len(tags) >= 2
                /\ tags[1] = <<"u", r.url>>
                /\ tags[2] = <<"method", r.method>>
                /\ \A i \in 3..Len(tags) : tags[i][1] \notin {"u", "method"}

\* A call for a relay typed with the ws scheme was sent to the rewritten
\* address, and its attestation names that address.
C27_Witness ==
    \E n \in 1..Len(netLog) :
        /\ netLog[n].call \in RpcCalls
        /\ StartsWith(calls[netLog[n].call].relayUrl, S_ws)
        /\ ~StartsWith(calls[netLog[n].call].relayUrl, S_wss)
        /\ StartsWith(netLog[n].url, S_https)
        /\ Attested(netLog[n].authorization).tags[1] = <<"u", netLog[n].url>>

\* Call id enters callRelayAPI, or an information fetch, in this step.
StartsRpc(id) == calls[id].pc = "idle" /\ calls'[id].entry = "callRelayAPI"
StartsInfo(id) ==
    calls[id].pc = "idle" /\ calls'[id].entry \in {"checkRelayConnection", "fetchRelayInfo"}

UserMutationSettles(id) ==
    /\ calls[id].pc # "done"
    /\ calls'[id].pc = "done"
    /\ calls'[id].origin = "handleAddUser"
    /\ calls'[id].exit # "invalid input"

\* The list a user mutation is about.
MatchingList(method) == IF method = banpubkey THEN "banned-users" ELSE "allowed-users"

\* C29: in user management a ban or allow that succeeds invalidates the
\* matching list query (banned-users for ban, allowed-users for allow) and no
\* other, closes the add dialog and clears the pubkey and reason fields; one
\* that fails leaves the dialog, the pubkey, the reason and the action
\* selection as they were and invalidates no query.  Neither writes the
\* action selection.
C29_UserMutationEffects ==
    [][\A id \in CallIds :
          UserMutationSettles(id) =>
              LET c == calls'[id]
                  k == ControlOf(c)
                  \* the form as entered: typed in this step if the call
                  \* fails as soon as it is submitted
                  before == IF calls[id].pc = "idle" THEN Typed(c.form)
                            ELSE ui.forms["UserManagement"]
                  after == ui'.forms["UserManagement"]
              IN  IF c.outcome.kind = "return"
                  THEN /\ \A j \in ControlIds \ {k} :
                             ui'.controls[j].stale =
                                 (ui.controls[j].stale \/ j[2] = MatchingList(c.method))
                       /\ ~after.open /\ after.ident = <<>> /\ after.reason = <<>>
                       /\ after.action = before.action
                  ELSE /\ \A j \in ControlIds : ui'.controls[j].stale = ui.controls[j].stale
                       /\ after = before
                       /\ ui'.controls[k].status = "error"]_vars

\* An allow submitted with a pubkey and a reason has succeeded: the
\* allowed-users lists are stale, the banned-users lists are not, the dialog
\* is closed, the pubkey and reason are empty and the action is still allow.
C29_Witness ==
    \E i \in CallIds :
        /\ calls[i].pc = "done" /\ calls[i].origin = "handleAddUser"
        /\ calls[i].method = allowpubkey /\ calls[i].outcome.kind = "return"
        /\ calls[i].form.ident # <<>> /\ calls[i].form.reason # <<>>
        /\ \A k \in ControlIds :
               /\ k[2] = "allowed-users" => ui.controls[k].stale
               /\ k[2] = "banned-users" => ~ui.controls[k].stale
        /\ ui.forms["UserManagement"] =
               [ident |-> <<>>, reason |-> <<>>, open |-> FALSE, action |-> "allow"]

\* The ban submitted from the moderation form by call id settles in this step.
BanSettles(id) ==
    /\ calls[id].pc \notin {"idle", "done"}
    /\ calls'[id].pc = "done"
    /\ calls'[id].origin = "handleBanEvent"

\* The query function of the list is running.
Fetching(method) == ui.controls[ListControl(method)].status = "pending"

\* C30: a ban of an event that succeeds invalidates both the
\* needing-moderation list and the banned-events list of that relay, and each
\* of the two is then eventually fetched again; a ban that fails invalidates
\* neither list and starts no refetch.
C30_BanRefetchesLists ==
    /\ [][\A id \in CallIds :
             BanSettles(id) =>
                 \A method \in ModerationLists :
                     LET before == ui.controls[ListControl(method)]
                         after == ui'.controls[ListControl(method)]
                     IN  IF calls'[id].outcome.kind = "return"
                         THEN after.stale /\ after.refetch
                         ELSE after = before]_vars
    /\ \A method \in ModerationLists :
           (ui.controls[BanControl].status = "success"
               /\ ui.controls[ListControl(method)].refetch) ~> Fetching(method)

\* The ban has succeeded after both lists had loaded, and the two lists are
\* being fetched again at once.
C30_Witness ==
    /\ ui.controls[BanControl].status = "success"
    /\ \A method \in ModerationLists :
           /\ Fetching(method)
           /\ ui.controls[ListControl(method)].stale
           /\ ui.controls[ListControl(method)].data # undefined
====
